---------------------------- MODULE Spec2Model ----------------------------
(***************************************************************************)
(* Connectivity layer of multi-patch B-splines                             *)
(* (bsplyne/multi_patch_b_spline.py): the union-find merger, the           *)
(* MultiPatchBSplineConnectivity constructors and its pack / unpack /      *)
(* separate / agglomerate / border operations.                             *)
(*                                                                         *)
(* Conventions.  A flat numpy array of length n is a function on 0..n-1.   *)
(* An n-dimensional array is a record [shape, at]: shape is the tuple of   *)
(* extents and at maps every index tuple (0-based entries) to its value.   *)
(* Axis numbers are 0-based as in the source; position k of a TLA+ tuple   *)
(* is axis k-1.  Field values are exact rationals <<num, den>>.            *)
(***************************************************************************)
EXTENDS Integers, Sequences, FiniteSets, TLC

\* ------------------------------------------------------------------ bounds
MaxPatches == 2
MaxNpa == 2
MaxExtent == 2
MaxNodes == 4
MaxCouples == 2
MaxVal == 1
MaxGeomPatches == 3
MaxCoord == 2
MaxEps == 2
MaxKeep == 2
MaxShift == 2
MaxFaceAxes == 2
MaxForest == 4
MaxUnions == 3
MaxSide == 3
MaxBoxNodes == 6
MaxGridNodes == 4

\* ----------------------------------------------------------------- helpers
Range(f) == {f[i] : i \in DOMAIN f}

Min(S) == CHOOSE m \in S : \A x \in S : m <= x

RECURSIVE Prod(_)
\* np.prod of a shape tuple
Prod(shape) == IF Len(shape) = 0 THEN 1 ELSE Head(shape) * Prod(Tail(shape))

\* a TLA+ sequence as a flat array on 0..n-1
Flat(s) == [i \in 0..(Len(s) - 1) |-> s[i + 1]]

\* length of a flat array
Size(a) == Cardinality(DOMAIN a)

\* np.concatenate / np.hstack of two flat arrays
Concat(a, b) ==
    [i \in 0..(Size(a) + Size(b) - 1) |-> IF i < Size(a) THEN a[i] ELSE b[i - Size(a)]]

RECURSIVE ConcatAll(_)
\* np.concatenate of a list (TLA+ sequence) of flat arrays
ConcatAll(list) ==
    IF Len(list) = 0 THEN Flat(<<>>) ELSE Concat(Head(list), ConcatAll(Tail(list)))

\* a[lo:hi]
Slice(a, lo, hi) == [i \in 0..(hi - lo - 1) |-> a[lo + i]]

\* np.sum(np.prod(shape_by_patch, axis=1))
RECURSIVE NbNodes(_)
NbNodes(sbp) == IF Len(sbp) = 0 THEN 0 ELSE Prod(Head(sbp)) + NbNodes(Tail(sbp))

\* ------------------------------------------------------------- union-find
RECURSIVE find_without_compression(_, _)
\* a find that follows the parent pointers and writes nothing
find_without_compression(parent, x) ==
    IF parent[x] # x
    THEN find_without_compression(parent, parent[x])
    ELSE [parent |-> parent, root |-> x]

RECURSIVE find(_, _)
\* find with path compression; yields the root and the updated parent array
find(parent, x) ==
    IF parent[x] # x
    THEN LET r == find(parent, parent[x])
         IN  [parent |-> [r.parent EXCEPT ![x] = r.root], root |-> r.root]
    ELSE [parent |-> parent, root |-> x]

\* a union that attaches the argument y, not its root, under the root of x
union_attach_argument(parent, rank, x, y) ==
    LET fx == find(parent, x)
        fy == find(fx.parent, y)
    IN  IF fx.root # fy.root
        THEN [parent |-> [fy.parent EXCEPT ![y] = fx.root], rank |-> rank]
        ELSE [parent |-> fy.parent, rank |-> rank]

\* a union that always attaches the root of y under the root of x
union_under_first(parent, rank, x, y) ==
    LET fx == find(parent, x)
        fy == find(fx.parent, y)
        rootX == fx.root
        rootY == fy.root
        p == fy.parent
    IN  IF rootX # rootY
        THEN [parent |-> [p EXCEPT ![rootY] = rootX],
              rank |-> IF rank[rootX] = rank[rootY]
                       THEN [rank EXCEPT ![rootX] = rank[rootX] + 1]
                       ELSE rank]
        ELSE [parent |-> p, rank |-> rank]

\* union by rank; yields the updated parent and rank arrays
union(parent, rank, x, y) ==
    LET fx == find(parent, x)
        fy == find(fx.parent, y)
        rootX == fx.root
        rootY == fy.root
        p == fy.parent
    IN  IF rootX # rootY
        THEN IF rank[rootX] > rank[rootY]
             THEN [parent |-> [p EXCEPT ![rootY] = rootX], rank |-> rank]
             ELSE IF rank[rootX] < rank[rootY]
             THEN [parent |-> [p EXCEPT ![rootX] = rootY], rank |-> rank]
             ELSE [parent |-> [p EXCEPT ![rootY] = rootX],
                   rank |-> [rank EXCEPT ![rootX] = rank[rootX] + 1]]
        ELSE [parent |-> p, rank |-> rank]

\* ------------------------------------------------------- canonicalisation
\* np.unique(a): the sorted distinct values, as a flat array
RECURSIVE SortedSeq(_)
SortedSeq(S) == IF S = {} THEN <<>> ELSE <<Min(S)>> \o SortedSeq(S \ {Min(S)})

np_unique(a) == Flat(SortedSeq(Range(a)))

\* the return_inverse output of np.unique: position of a[i] in np_unique(a)
np_unique_inverse(a) ==
    LET u == np_unique(a)
    IN  [i \in DOMAIN a |-> CHOOSE k \in DOMAIN u : u[k] = a[i]]

\* np.diff(np.concatenate(([-1], d)))
DiffFromMinusOne(d) == [k \in DOMAIN d |-> d[k] - (IF k = 0 THEN -1 ELSE d[k - 1])]

RECURSIVE SumTo(_, _)
SumTo(a, k) == IF k < 0 THEN 0 ELSE a[k] + SumTo(a, k - 1)

\* np.cumsum
np_cumsum(a) == [k \in DOMAIN a |-> SumTo(a, k)]

\* a relabeling that forgets the -1 sentinel of the first gap
Canonicalize_off_by_one(inds) ==
    LET different == np_unique(inds)
        inverse == np_unique_inverse(inds)
        gaps == [k \in DOMAIN different |->
                    IF k = 0 THEN 0 ELSE different[k] - different[k - 1] - 1]
        shift == np_cumsum(gaps)
    IN  [i \in DOMAIN inds |-> inds[i] - shift[inverse[i]]]

\* a relabeling that numbers the distinct values from the largest down
Canonicalize_descending(inds) ==
    LET different == np_unique(inds)
        inverse == np_unique_inverse(inds)
    IN  [i \in DOMAIN inds |-> Size(different) - 1 - inverse[i]]

\* inds -= np.cumsum(np.diff(np.concatenate(([-1], different))) - 1)[inverse]
Canonicalize(inds) ==
    LET different == np_unique(inds)
        inverse == np_unique_inverse(inds)
        d == DiffFromMinusOne(different)
        shift == np_cumsum([k \in DOMAIN d |-> d[k] - 1])
    IN  [i \in DOMAIN inds |-> inds[i] - shift[inverse[i]]]

\* np.unique(a).size
NbDistinct(a) == Cardinality(Range(a))

\* ------------------------------------------------------ n-dimensional arrays
RECURSIVE Indices(_)
\* every index tuple of an array of the given shape
Indices(shape) ==
    IF Len(shape) = 0 THEN {<<>>}
    ELSE {<<i>> \o t : i \in 0..(Head(shape) - 1), t \in Indices(Tail(shape))}

RECURSIVE RavelIndex(_, _)
\* flat position of an index tuple, C order (last axis fastest)
RavelIndex(idx, shape) ==
    IF Len(shape) = 0 THEN 0
    ELSE Head(idx) * Prod(Tail(shape)) + RavelIndex(Tail(idx), Tail(shape))

RECURSIVE UnravelIndex(_, _)
\* index tuple of a flat position, C order
UnravelIndex(k, shape) ==
    IF Len(shape) = 0 THEN <<>>
    ELSE <<k \div Prod(Tail(shape))>> \o UnravelIndex(k % Prod(Tail(shape)), Tail(shape))

\* flat.reshape(shape)
reshape(flat, shape) ==
    [shape |-> shape, at |-> [idx \in Indices(shape) |-> flat[RavelIndex(idx, shape)]]]

\* arr.ravel() / arr.reshape(-1)
ravel(arr) == [k \in 0..(Prod(arr.shape) - 1) |-> arr.at[UnravelIndex(k, arr.shape)]]

\* seq without / with an entry at 1-based position pos
RemoveAt(seq, pos) == SubSeq(seq, 1, pos - 1) \o SubSeq(seq, pos + 1, Len(seq))
InsertAt(seq, pos, v) == SubSeq(seq, 1, pos - 1) \o <<v>> \o SubSeq(seq, pos, Len(seq))

\* seq[::-1]
Reverse(seq) == [k \in 1..Len(seq) |-> seq[Len(seq) + 1 - k]]

\* np.take(arr, index, axis=axis) for index 0 or -1
np_take(arr, index, axis) ==
    LET i == IF index < 0 THEN arr.shape[axis + 1] + index ELSE index
        shp == RemoveAt(arr.shape, axis + 1)
    IN  [shape |-> shp,
         at |-> [idx \in Indices(shp) |-> arr.at[InsertAt(idx, axis + 1, i)]]]

\* arr.transpose(axes): axis k of the result is axis axes[k] of arr
transpose(arr, axes) ==
    LET shp == [k \in 1..Len(axes) |-> arr.shape[axes[k] + 1]]
    IN  [shape |-> shp,
         at |-> [idx \in Indices(shp) |->
                   arr.at[[j \in 1..Len(axes) |->
                             idx[CHOOSE k \in 1..Len(axes) : axes[k] = j - 1]]]]]

\* ------------------------------------------------------------ field values
RECURSIVE GCD(_, _)
GCD(a, b) == IF b = 0 THEN a ELSE GCD(b, a % b)

\* exact rationals <<num, den>>, den > 0, in lowest terms
Norm(q) ==
    LET g == GCD(IF q[1] < 0 THEN -q[1] ELSE q[1], q[2])
    IN  IF g = 0 THEN q ELSE <<q[1] \div g, q[2] \div g>>

FAdd(a, b) == Norm(<<a[1] * b[2] + b[1] * a[2], a[2] * b[2]>>)

\* a / k; <<0, 0>> stands for the nan of a division by zero
FDivInt(a, k) == IF k = 0 THEN <<0, 0>> ELSE Norm(<<a[1], a[2] * k>>)

Zero == <<0, 1>>

\* the rational of an integer, and the product of two rationals
FInt(n) == <<n, 1>>

FMul(a, b) == Norm(<<a[1] * b[1], a[2] * b[2]>>)

\* ------------------------------------------------------------ Connectivity
\* MultiPatchBSplineConnectivity.__init__
Connectivity(unique_inds, sbp, nb_unique) ==
    [unique_nodes_inds |-> unique_inds,
     shape_by_patch |-> sbp,
     nb_nodes |-> NbNodes(sbp),
     nb_unique_nodes |-> nb_unique,
     nb_patchs |-> Len(sbp),
     npa |-> IF Len(sbp) = 0 THEN 0 ELSE Len(sbp[1])]

\* unique_field[..., self.unique_nodes_inds]
unpack(self, unique_field) ==
    [i \in DOMAIN self.unique_nodes_inds |-> unique_field[self.unique_nodes_inds[i]]]

\* flat array a[::-1]
Flip(a) == [i \in DOMAIN a |-> a[Size(a) - 1 - i]]

RECURSIVE AssignFrom(_, _, _, _)
\* target[idxs] = vals, written one entry after the other from position k on:
\* for a repeated index the last write stays
AssignFrom(target, idxs, vals, k) ==
    IF k >= Size(idxs) THEN target
    ELSE AssignFrom([target EXCEPT ![idxs[k]] = vals[k]], idxs, vals, k + 1)

RECURSIVE AddAtFrom(_, _, _, _)
\* np.add.at(target, idxs, vals): unbuffered accumulation
AddAtFrom(target, idxs, vals, k) ==
    IF k >= Size(idxs) THEN target
    ELSE AddAtFrom([target EXCEPT ![idxs[k]] = FAdd(@, vals[k])], idxs, vals, k + 1)

RECURSIVE CountAtFrom(_, _, _)
\* np.add.at(counts, idxs, 1)
CountAtFrom(counts, idxs, k) ==
    IF k >= Size(idxs) THEN counts
    ELSE CountAtFrom([counts EXCEPT ![idxs[k]] = @ + 1], idxs, k + 1)

\* pack that accumulates the contributors instead of keeping one
pack_first_accumulating(self, unpacked_field) ==
    AddAtFrom([u \in 0..(self.nb_unique_nodes - 1) |-> Zero],
              self.unique_nodes_inds, unpacked_field, 0)

\* pack 'first' that writes the slots in increasing order
pack_first_not_reversed(self, unpacked_field) ==
    AssignFrom([u \in 0..(self.nb_unique_nodes - 1) |-> Zero],
               self.unique_nodes_inds, unpacked_field, 0)

\* pack, method 'first'
pack_first(self, unpacked_field) ==
    AssignFrom([u \in 0..(self.nb_unique_nodes - 1) |-> Zero],
               Flip(self.unique_nodes_inds), Flip(unpacked_field), 0)

\* pack 'mean' that forgets the division by the counts
pack_mean_no_division(self, unpacked_field) ==
    AddAtFrom([u \in 0..(self.nb_unique_nodes - 1) |-> Zero],
              self.unique_nodes_inds, unpacked_field, 0)

\* pack, method 'mean'
pack_mean(self, unpacked_field) ==
    LET sums == AddAtFrom([u \in 0..(self.nb_unique_nodes - 1) |-> Zero],
                          self.unique_nodes_inds, unpacked_field, 0)
        counts == CountAtFrom([u \in 0..(self.nb_unique_nodes - 1) |-> 0],
                              self.unique_nodes_inds, 0)
    IN  [u \in 0..(self.nb_unique_nodes - 1) |-> FDivInt(sums[u], counts[u])]

\* a pack that falls back on 'mean' for a method it does not know
pack_unknown_as_mean(self, unpacked_field, method) ==
    IF method = "first" THEN [ret |-> pack_first(self, unpacked_field), err |-> "none"]
    ELSE [ret |-> pack_mean(self, unpacked_field), err |-> "none"]

\* pack: [ret, err]
pack(self, unpacked_field, method) ==
    IF method = "first" THEN [ret |-> pack_first(self, unpacked_field), err |-> "none"]
    ELSE IF method = "mean" THEN [ret |-> pack_mean(self, unpacked_field), err |-> "none"]
    ELSE [ret |-> <<>>, err |-> "NotImplementedError"]

RECURSIVE SeparateFrom(_, _, _)
\* the loop of separate over the remaining patch shapes, ind being the next slot
SeparateFrom(shapes, unpacked_field, ind) ==
    IF Len(shapes) = 0 THEN <<>>
    ELSE LET next_ind == ind + Prod(Head(shapes))
         IN  <<reshape(Slice(unpacked_field, ind, next_ind), Head(shapes))>>
             \o SeparateFrom(Tail(shapes), unpacked_field, next_ind)

\* a separate that starts every patch at slot 0
separate_no_offset(self, unpacked_field) ==
    [i \in 1..Len(self.shape_by_patch) |->
        reshape(Slice(unpacked_field, 0, Prod(self.shape_by_patch[i])),
                self.shape_by_patch[i])]

separate(self, unpacked_field) == SeparateFrom(self.shape_by_patch, unpacked_field, 0)

\* agglomerate: [ret, err]
agglomerate(self, separated_field) ==
    LET fshape(f) == SubSeq(f.shape, 1, Len(f.shape) - self.npa)
        field_shape == fshape(separated_field[1])
    IN  IF \A i \in 1..Len(separated_field) : fshape(separated_field[i]) = field_shape
        THEN [ret |-> ConcatAll([i \in 1..Len(separated_field) |-> ravel(separated_field[i])]),
              err |-> "none"]
        ELSE [ret |-> <<>>, err |-> "AssertionError"]

\* unique_field_indices((), "separated")
unique_field_indices(self) ==
    separate(self, unpack(self, [u \in 0..(self.nb_unique_nodes - 1) |-> u]))

\* the mask true at every slot whatever the count
duplicate_mask_counts_ge_one(self) ==
    [i \in DOMAIN self.unique_nodes_inds |-> TRUE]

\* get_duplicate_unpacked_nodes_mask
get_duplicate_unpacked_nodes_mask(self) ==
    LET inds == self.unique_nodes_inds
        unique == np_unique(inds)
        inverse == np_unique_inverse(inds)
        counts == [k \in DOMAIN unique |-> Cardinality({i \in DOMAIN inds : inds[i] = unique[k]})]
    IN  [i \in 0..(self.nb_nodes - 1) |-> counts[inverse[i]] > 1]

\* ------------------------------------------------------------------ borders
\* the patch descriptors handed to the border extraction: patch i (0-based)
\* carries one basis per parametric axis, named by (patch, axis)
Splines(sbp) ==
    [i \in 1..Len(sbp) |->
        [bases |-> [a \in 1..Len(sbp[i]) |-> [patch |-> i - 1, axis |-> a - 1]]]]

\* ndarray.all()
np_all(arr) == \A idx \in DOMAIN arr.at : arr.at[idx]

\* ndarray.any()
np_any(arr) == \E idx \in DOMAIN arr.at : arr.at[idx]

\* an exterior test that asks for no duplicate at all
exterior_test_not_any(mask_slice) == ~np_any(mask_slice)

\* not np.take(duplicate_nodes_mask_spline, side, axis=axis).all()
exterior_test(mask_slice) == ~np_all(mask_slice)

\* an interior test satisfied by one duplicate
interior_test_any(mask_slice) == np_any(mask_slice)

\* np.take(duplicate_nodes_mask_spline, side, axis=axis).all()
interior_test(mask_slice) == np_all(mask_slice)

\* the extremal slices in the order of the loops: patch, axis, index 0 then -1
BorderSlices(self) ==
    [m \in 1..(2 * self.npa * self.nb_patchs) |->
        [patch |-> (m - 1) \div (2 * self.npa),
         axis |-> ((m - 1) \div 2) % self.npa,
         side |-> IF (m - 1) % 2 = 0 THEN 0 ELSE -1]]

\* a loop body that forgets to reverse the axes of the slice of index 0
BorderOf_untransposed(self, splines_, s) ==
    LET npa == self.npa
        spline == splines_[s.patch + 1]
        unique_nodes_inds_spline == unique_field_indices(self)[s.patch + 1]
        shape_by_patch_spline == self.shape_by_patch[s.patch + 1]
        arr == [a \in 1..npa |-> a - 1]
        bases == SubSeq(spline.bases, s.axis + 2, npa) \o SubSeq(spline.bases, 1, s.axis)
        axes == SubSeq(arr, s.axis + 1, npa - 1) \o SubSeq(arr, 1, s.axis)
        border_shape == SubSeq(shape_by_patch_spline, s.axis + 2, npa)
                        \o SubSeq(shape_by_patch_spline, 1, s.axis)
    IN  IF s.side = 0
        THEN [slice |-> s,
              spline |-> [bases |-> Reverse(bases)],
              inds |-> ravel(transpose(np_take(unique_nodes_inds_spline, 0, s.axis),
                                       axes)),
              shape |-> Reverse(border_shape)]
        ELSE [slice |-> s,
              spline |-> [bases |-> bases],
              inds |-> ravel(transpose(np_take(unique_nodes_inds_spline, -1, s.axis), axes)),
              shape |-> border_shape]

\* what the loop body appends for one collected slice s
BorderOf(self, splines_, s) ==
    LET npa == self.npa
        spline == splines_[s.patch + 1]
        unique_nodes_inds_spline == unique_field_indices(self)[s.patch + 1]
        shape_by_patch_spline == self.shape_by_patch[s.patch + 1]
        arr == [a \in 1..npa |-> a - 1]
        bases == SubSeq(spline.bases, s.axis + 2, npa) \o SubSeq(spline.bases, 1, s.axis)
        axes == SubSeq(arr, s.axis + 1, npa - 1) \o SubSeq(arr, 1, s.axis)
        border_shape == SubSeq(shape_by_patch_spline, s.axis + 2, npa)
                        \o SubSeq(shape_by_patch_spline, 1, s.axis)
    IN  IF s.side = 0
        THEN [slice |-> s,
              spline |-> [bases |-> Reverse(bases)],
              inds |-> ravel(transpose(np_take(unique_nodes_inds_spline, 0, s.axis),
                                       Reverse(axes))),
              shape |-> Reverse(border_shape)]
        ELSE [slice |-> s,
              spline |-> [bases |-> bases],
              inds |-> ravel(transpose(np_take(unique_nodes_inds_spline, -1, s.axis), axes)),
              shape |-> border_shape]

\* np.concatenate: a newly allocated array.  An array is carried with the
\* buffer that holds it: base "fresh" for an allocation of the call, base
\* "self" for a view of self.unique_nodes_inds that starts at its entry start
np_concatenate(parts) == [base |-> "fresh", start |-> 0, data |-> ConcatAll(parts)]

\* target -= np.cumsum(np.diff(...) - 1)[inverse]: the relabeling written in
\* place into the buffer of target; data is the new content of target and
\* self the instance once the write is done
isub_relabel(self, target) ==
    LET data == Canonicalize(target.data)
    IN  [data |-> data,
         self |-> IF target.base = "self"
                  THEN [self EXCEPT !.unique_nodes_inds =
                           [x \in DOMAIN self.unique_nodes_inds |->
                               IF x >= target.start /\ x < target.start + Size(data)
                               THEN data[x - target.start]
                               ELSE self.unique_nodes_inds[x]]]
                  ELSE self]

\* the slice of the duplicate mask that the loop tests for the extremal slice s
MaskSlice(self, s) ==
    LET duplicate_separated_nodes_mask == separate(self, get_duplicate_unpacked_nodes_mask(self))
    IN  np_take(duplicate_separated_nodes_mask[s.patch + 1], s.side, s.axis)

\* the part of both extractions after the loop has collected its slices:
\* concatenation, relabeling and construction of the border connectivity
BordersFrom(self, splines_, collected) ==
    LET borders == [m \in 1..Len(collected) |-> BorderOf(self, splines_, collected[m])]
    IN  IF Len(collected) = 0
        THEN \* np.concatenate of an empty list
             [ret |-> <<>>, err |-> "ValueError", self |-> self]
        ELSE
        LET border_unique_nodes_inds ==
                np_concatenate([m \in 1..Len(borders) |-> borders[m].inds])
            border_shape_by_patch == [m \in 1..Len(borders) |-> borders[m].shape]
            border_unique_to_self_unique_connectivity ==
                np_unique(border_unique_nodes_inds.data)
            written == isub_relabel(self, border_unique_nodes_inds)
        IN  [ret |-> [border_connectivity |->
                          Connectivity(written.data, border_shape_by_patch,
                                       NbDistinct(written.data)),
                      border_splines |-> [m \in 1..Len(borders) |-> borders[m].spline],
                      border_unique_to_self_unique_connectivity |->
                          border_unique_to_self_unique_connectivity,
                      slices |-> collected],
             err |-> "none",
             self |-> written.self]

\* an exterior extraction that only refuses a mesh without any axis
extract_exterior_borders_npa_one(self, splines_) ==
    IF self.npa <= 0 THEN [ret |-> <<>>, err |-> "AssertionError", self |-> self]
    ELSE BordersFrom(self, splines_,
             SelectSeq(BorderSlices(self), LAMBDA s : exterior_test(MaskSlice(self, s))))

\* [ret, err, self]; the slices collected are those whose mask is not all True
extract_exterior_borders(self, splines_) ==
    IF self.npa <= 1 THEN [ret |-> <<>>, err |-> "AssertionError", self |-> self]
    ELSE BordersFrom(self, splines_,
             SelectSeq(BorderSlices(self), LAMBDA s : exterior_test(MaskSlice(self, s))))

\* [ret, err, self]; the slices collected are those whose mask is all True
extract_interior_borders(self, splines_) ==
    IF self.npa <= 1 THEN [ret |-> <<>>, err |-> "AssertionError", self |-> self]
    ELSE BordersFrom(self, splines_,
             SelectSeq(BorderSlices(self), LAMBDA s : interior_test(MaskSlice(self, s))))

\* ------------------------------------------------------------------- subset
\* a subset that relabels a single kept patch through a view of the parent
subset_indices_on_view(self, patches_to_keep) ==
    IF Len(patches_to_keep) = 1
    THEN LET start == NbNodes(SubSeq(self.shape_by_patch, 1, patches_to_keep[1]))
             n == Prod(self.shape_by_patch[patches_to_keep[1] + 1])
         IN  [base |-> "self", start |-> start,
              data |-> Slice(self.unique_nodes_inds, start, start + n)]
    ELSE np_concatenate([m \in 1..Len(patches_to_keep) |->
                            ravel(unique_field_indices(self)[patches_to_keep[m] + 1])])

\* a subset that gathers the kept patches in the order of the parent
subset_indices_parent_order(self, patches_to_keep) ==
    LET kept == SortedSeq(Range(patches_to_keep))
    IN  np_concatenate([m \in 1..Len(kept) |->
                           ravel(unique_field_indices(self)[kept[m] + 1])])

\* np.concatenate([separated_unique_nodes_inds[patch].flat for patch in patches_to_keep])
subset_indices(self, patches_to_keep) ==
    np_concatenate([m \in 1..Len(patches_to_keep) |->
                       ravel(unique_field_indices(self)[patches_to_keep[m] + 1])])

\* subset: [ret, err, self]
subset(self, splines_, patches_to_keep) ==
    IF Len(patches_to_keep) = 0
    THEN \* np.concatenate of an empty list
         [ret |-> <<>>, err |-> "ValueError", self |-> self]
    ELSE
    LET new_splines == [m \in 1..Len(patches_to_keep) |-> splines_[patches_to_keep[m] + 1]]
        new_unique_nodes_inds == subset_indices(self, patches_to_keep)
        new_shape_by_patch == [m \in 1..Len(patches_to_keep) |->
                                  self.shape_by_patch[patches_to_keep[m] + 1]]
        new_unique_to_self_unique_connectivity == np_unique(new_unique_nodes_inds.data)
        written == isub_relabel(self, new_unique_nodes_inds)
    IN  [ret |-> [new_connectivity |->
                      Connectivity(written.data, new_shape_by_patch,
                                   NbDistinct(written.data)),
                  new_splines |-> new_splines,
                  new_unique_to_self_unique_connectivity |->
                      new_unique_to_self_unique_connectivity],
         err |-> "none",
         self |-> written.self]

\* --------------------------------------------------- from_separated_ctrlPts
\* squared Euclidean distance of two points (tuples of coordinates)
RECURSIVE Dist2(_, _)
Dist2(p, q) ==
    IF Len(p) = 0 THEN 0
    ELSE (Head(p) - Head(q)) * (Head(p) - Head(q)) + Dist2(Tail(p), Tail(q))

\* np.linalg.norm(p - q) < eps, for eps >= 0
IsClose(p, q, e) == Dist2(p, q) < e * e

\* keeping only the current patch for the next iteration
hstack_previous_forgotten(previous, current) == current

\* np.hstack((previous, current)): what the next patch is compared with
hstack_previous(previous, current) == Concat(previous, current)

\* the couples of one iteration: (dist<eps).nonzero() in row-major order
CouplesOf(previous_pts, previous_inds, current_pts, current_inds, e) ==
    LET np_ == Size(previous_pts)
        nc == Size(current_pts)
        pairs == [m \in 1..(np_ * nc) |-> <<(m - 1) \div nc, (m - 1) % nc>>]
        hits == SelectSeq(pairs, LAMBDA pr : IsClose(previous_pts[pr[1]], current_pts[pr[2]], e))
    IN  [m \in 1..Len(hits) |-> <<previous_inds[hits[m][1]], current_inds[hits[m][2]]>>]

RECURSIVE CouplesLoop(_, _, _, _, _)
\* the loop over separated_ctrlPts[1:]
CouplesLoop(rest, previous_pts, previous_inds, previous_inds_counter, e) ==
    IF Len(rest) = 0 THEN <<>>
    ELSE LET current_pts == ravel(Head(rest))
             current_inds_counter == previous_inds_counter + Size(current_pts)
             current_inds == [j \in 0..(Size(current_pts) - 1) |-> previous_inds_counter + j]
         IN  CouplesOf(previous_pts, previous_inds, current_pts, current_inds, e)
             \o CouplesLoop(Tail(rest),
                            hstack_previous(previous_pts, current_pts),
                            hstack_previous(previous_inds, current_inds),
                            current_inds_counter, e)

\* the nodes_couples that from_separated_ctrlPts hands to from_nodes_couples
CtrlPtsCouples(ctrlPts, e) ==
    LET previous_pts == ravel(ctrlPts[1])
    IN  CouplesLoop(Tail(ctrlPts), previous_pts,
                    [j \in 0..(Size(previous_pts) - 1) |-> j], Size(previous_pts), e)

\* --------------------------------------------------------- patch descriptors
\* BSplineBasis(p, knot): a degree and a knot vector
BSplineBasis(p, knot) == [p |-> p, knot |-> knot]

\* the parametric span [min, max] of a basis
SpanOf(basis) == <<basis.knot[basis.p + 1], basis.knot[Len(basis.knot) - basis.p]>>

\* number of control points along the axis of a basis
NbCtrlPts(basis) == Len(basis.knot) - basis.p - 1

\* BSpline.from_bases
BSpline(bases) == [bases |-> bases]

getDegrees(spline) == [a \in 1..Len(spline.bases) |-> spline.bases[a].p]

getKnots(spline) == [a \in 1..Len(spline.bases) |-> spline.bases[a].knot]

getSpans(spline) == [a \in 1..Len(spline.bases) |-> SpanOf(spline.bases[a])]

\* ------------------------------------------------------ CouplesBSplineBorder
\* np.arange(n) as a sequence
Arange(n) == [a \in 1..n |-> a - 1]

\* seq[(axis + 1):] followed by seq[:axis]
AfterThenBefore(seq, axis) == SubSeq(seq, axis + 2, Len(seq)) \o SubSeq(seq, 1, axis)

\* extract_border_pts(field, axis, front_side) with offset 0: the slice of
\* field at the first (back) or last (front) index of axis, its axes being
\* those after axis then those before it, in reverse order for a back side
extract_border_pts(field, axis, front_side) ==
    LET npa == Len(field.shape)
        base == AfterThenBefore(Arange(npa), axis)
        base_face == IF front_side THEN base ELSE Reverse(base)
    IN  np_take(transpose(field, <<axis>> \o base_face), IF front_side THEN -1 ELSE 0, 0)

\* extract_border_spline(spline, axis, front_side)
extract_border_spline(spline, axis, front_side) ==
    LET base == AfterThenBefore(Arange(Len(spline.bases)), axis)
        base_face == IF front_side THEN base ELSE Reverse(base)
    IN  BSpline([a \in 1..Len(base_face) |-> spline.bases[base_face[a] + 1]])

\* np.flip(field, axis=axis)
np_flip(field, axis) ==
    [shape |-> field.shape,
     at |-> [idx \in Indices(field.shape) |->
               field.at[[idx EXCEPT ![axis + 1] = field.shape[axis + 1] - 1 - idx[axis + 1]]]]]

RECURSIVE FlipLoop(_, _, _)
\* for i in range(flip.size): if flip[i]: field = np.flip(field, axis=i), from i on
FlipLoop(field, flip, i) ==
    IF i >= Len(flip) THEN field
    ELSE FlipLoop(IF flip[i + 1] THEN np_flip(field, i) ELSE field, flip, i + 1)

\* transpose_and_flip(field, transpose, flip)
transpose_and_flip(field, transpose_, flip) == FlipLoop(transpose(field, transpose_), flip, 0)

\* transpose_and_flip_knots(knots, spans, transpose, flip)
transpose_and_flip_knots(knots, spans, transpose_, flip) ==
    [i \in 1..Len(flip) |->
        LET knot == knots[transpose_[i] + 1]
        IN  IF flip[i]
            THEN [q \in 1..Len(knot) |-> spans[i][1] + spans[i][2] - knot[Len(knot) + 1 - q]]
            ELSE knot]

RECURSIVE Pow2(_)
Pow2(n) == IF n = 0 THEN 1 ELSE 2 * Pow2(n - 1)

\* all_flip: the 2^(NPa-1) rows of NPa-1 booleans, row v holding the bits of
\* v, the most significant first
all_flip(NPa) ==
    [v \in 1..Pow2(NPa - 1) |->
        [c \in 1..(NPa - 1) |-> ((v - 1) \div Pow2(NPa - 1 - c)) % 2 = 1]]

RECURSIVE permutations(_)
RECURSIVE PermutationsFrom(_, _)
\* the permutations of items that start with items[m], items[m+1], ...
PermutationsFrom(items, m) ==
    IF m > Len(items) THEN <<>>
    ELSE LET rest == permutations(RemoveAt(items, m))
         IN  [q \in 1..Len(rest) |-> <<items[m]>> \o rest[q]] \o PermutationsFrom(items, m + 1)

\* itertools.permutations(items), in its order of generation
permutations(items) == IF Len(items) = 0 THEN <<<<>>>> ELSE PermutationsFrom(items, 1)

\* all_transpose
all_transpose(NPa) == permutations(Arange(NPa - 1))

\* np.allclose on grids of one shape; the coordinates of the model are small
\* integers, for which |a - b| <= atol + rtol * |b| means a = b
np_allclose(a, b) == \A idx \in DOMAIN a.at : a.at[idx] = b.at[idx]

\* the boundary pairs and alignments of two patches in the order of the
\* nested loops: axis1, axis2, front_side1, front_side2, transpose, flip
Candidates(NPa) ==
    LET nF == Len(all_flip(NPa))
        nT == Len(all_transpose(NPa))
    IN  [c \in 1..(NPa * NPa * 4 * nT * nF) |->
            [axis1 |-> (c - 1) \div (NPa * 4 * nT * nF),
             axis2 |-> ((c - 1) \div (4 * nT * nF)) % NPa,
             front_side1 |-> ((c - 1) \div (2 * nT * nF)) % 2 = 1,
             front_side2 |-> ((c - 1) \div (nT * nF)) % 2 = 1,
             transpose_2_to_1 |-> all_transpose(NPa)[(((c - 1) \div nF) % nT) + 1],
             flip_2_to_1 |-> all_flip(NPa)[((c - 1) % nF) + 1]]]

\* the five tests of the innermost loops for one candidate
Passes(ctrl_pts1, ctrl_pts2, spline1, spline2, c) ==
    LET degrees1 == AfterThenBefore(getDegrees(spline1), c.axis1)
        knots1 == AfterThenBefore(getKnots(spline1), c.axis1)
        degrees2 == AfterThenBefore(getDegrees(spline2), c.axis2)
        knots2 == AfterThenBefore(getKnots(spline2), c.axis2)
        spans2 == AfterThenBefore(getSpans(spline2), c.axis2)
        pts1 == extract_border_pts(ctrl_pts1, c.axis1, c.front_side1)
        pts2 == extract_border_pts(ctrl_pts2, c.axis2, c.front_side2)
        tr == c.transpose_2_to_1
        flip == c.flip_2_to_1
    IN  /\ degrees1 = [i \in 1..Len(tr) |-> degrees2[tr[i] + 1]]
        /\ pts1.shape = [i \in 1..Len(tr) |-> pts2.shape[tr[i] + 1]]
        /\ \A i \in 1..Len(tr) : Len(knots1[i]) = Len(knots2[tr[i] + 1])
        /\ knots1 = transpose_and_flip_knots(knots2, spans2, tr, flip)
        /\ np_allclose(pts1, transpose_and_flip(pts2, tr, flip))

\* a search that stops at the first alignment a boundary pair passes
PairRecords_first_only(separated_ctrl_pts, splines, spline1_ind, spline2_ind) ==
    LET NPa == Len(splines[1].bases)
        cands == Candidates(NPa)
        ok(c) == Passes(separated_ctrl_pts[spline1_ind + 1], separated_ctrl_pts[spline2_ind + 1],
                        splines[spline1_ind + 1], splines[spline2_ind + 1], c)
        same(c, d) == /\ c.axis1 = d.axis1 /\ c.axis2 = d.axis2
                      /\ c.front_side1 = d.front_side1 /\ c.front_side2 = d.front_side2
        kept == {m \in 1..Len(cands) :
                    ok(cands[m]) /\ \A n \in 1..(m - 1) : ~(same(cands[n], cands[m]) /\ ok(cands[n]))}
    IN  [m \in 1..Cardinality(kept) |->
            [spline1_ind |-> spline1_ind, spline2_ind |-> spline2_ind]
            @@ cands[SortedSeq(kept)[m]]]

\* the records the loops over axis1 ... flip append for one pair of patches
PairRecords(separated_ctrl_pts, splines, spline1_ind, spline2_ind) ==
    LET NPa == Len(splines[1].bases)
        passing == SelectSeq(Candidates(NPa),
                       LAMBDA c : Passes(separated_ctrl_pts[spline1_ind + 1],
                                         separated_ctrl_pts[spline2_ind + 1],
                                         splines[spline1_ind + 1], splines[spline2_ind + 1], c))
    IN  [m \in 1..Len(passing) |->
            [spline1_ind |-> spline1_ind, spline2_ind |-> spline2_ind] @@ passing[m]]

\* the pairs (spline1_ind, spline2_ind) in the order of the two outer loops
PatchPairs(npatch) ==
    LET pairs == {<<a, b>> : a \in 0..(npatch - 1), b \in 0..(npatch - 1)}
        before(p, q) == p[1] < q[1] \/ (p[1] = q[1] /\ p[2] < q[2])
        valid == {p \in pairs : p[1] < p[2]}
    IN  [m \in 1..Cardinality(valid) |->
            CHOOSE p \in valid : Cardinality({q \in valid : before(q, p)}) = m - 1]

\* CouplesBSplineBorder.__init__ from the list of records
CouplesBSplineBorder(records, NPa) ==
    [spline1_inds |-> [m \in 1..Len(records) |-> records[m].spline1_ind],
     spline2_inds |-> [m \in 1..Len(records) |-> records[m].spline2_ind],
     axes1 |-> [m \in 1..Len(records) |-> records[m].axis1],
     axes2 |-> [m \in 1..Len(records) |-> records[m].axis2],
     front_sides1 |-> [m \in 1..Len(records) |-> records[m].front_side1],
     front_sides2 |-> [m \in 1..Len(records) |-> records[m].front_side2],
     transpose_2_to_1 |-> [m \in 1..Len(records) |-> records[m].transpose_2_to_1],
     flip_2_to_1 |-> [m \in 1..Len(records) |-> records[m].flip_2_to_1],
     NPa |-> NPa,
     nb_couples |-> Len(records)]

\* the record of index couple_ind (0-based) of an instance
RecordOf(self, couple_ind) ==
    [spline1_ind |-> self.spline1_inds[couple_ind + 1],
     spline2_ind |-> self.spline2_inds[couple_ind + 1],
     axis1 |-> self.axes1[couple_ind + 1],
     axis2 |-> self.axes2[couple_ind + 1],
     front_side1 |-> self.front_sides1[couple_ind + 1],
     front_side2 |-> self.front_sides2[couple_ind + 1],
     transpose_2_to_1 |-> self.transpose_2_to_1[couple_ind + 1],
     flip_2_to_1 |-> self.flip_2_to_1[couple_ind + 1]]

RECURSIVE FSum(_, _)
\* sum of the rationals f[0], ..., f[n - 1]
FSum(f, n) == IF n = 0 THEN Zero ELSE FAdd(FSum(f, n - 1), f[n - 1])

\* get_operator_allxi1_to_allxi2(spans1, spans2, couple_ind): [A, b], A a
\* matrix of rationals indexed by <<row, column>> and b a vector, 0-based
get_operator_allxi1_to_allxi2(self, spans1, spans2, couple_ind) ==
    LET r == RecordOf(self, couple_ind)
        ax1 == r.axis1
        ax2 == r.axis2
        front1 == r.front_side1
        front2 == r.front_side2
        tr == r.transpose_2_to_1
        flip == r.flip_2_to_1
        N == self.NPa
        arr == Arange(N)
        j1 == AfterThenBefore(arr, ax1)
        j2 == AfterThenBefore(arr, ax2)
        int(x) == IF x THEN 1 ELSE 0
        hit(row, col) == {i \in 1..Len(tr) : j2[tr[i] + 1] = row /\ j1[i] = col}
        A0 == [rc \in (0..(N - 1)) \X (0..(N - 1)) |->
                 IF hit(rc[1], rc[2]) # {}
                 THEN (IF flip[CHOOSE i \in hit(rc[1], rc[2]) : TRUE] THEN -1 ELSE 1)
                 ELSE IF rc[1] = ax2 /\ rc[2] = ax1
                      THEN (IF front1 = front2 THEN -1 ELSE 1)
                      ELSE 0]
        rows(row) == {i \in 1..Len(tr) : j2[tr[i] + 1] = row}
        b0 == [row \in 0..(N - 1) |->
                 IF rows(row) # {}
                 THEN (IF flip[CHOOSE i \in rows(row) : TRUE] THEN 1 ELSE 0)
                 ELSE IF row = ax2
                      THEN (int(front1) + int(front2)) * (IF front2 THEN 1 ELSE -1)
                      ELSE 0]
        alpha1 == [c \in 0..(N - 1) |-> spans1[c + 1][1]]
        beta1 == [c \in 0..(N - 1) |-> spans1[c + 1][2]]
        alpha2 == [c \in 0..(N - 1) |-> spans2[c + 1][1]]
        beta2 == [c \in 0..(N - 1) |-> spans2[c + 1][2]]
        M1 == [c \in 0..(N - 1) |-> FDivInt(FInt(1), beta1[c] - alpha1[c])]
        p1 == [c \in 0..(N - 1) |-> FDivInt(FInt(-alpha1[c]), beta1[c] - alpha1[c])]
        M2 == [c \in 0..(N - 1) |-> FInt(beta2[c] - alpha2[c])]
        p2 == [c \in 0..(N - 1) |-> FInt(alpha2[c])]
    IN  [A |-> [rc \in (0..(N - 1)) \X (0..(N - 1)) |->
                   FMul(FMul(M2[rc[1]], FInt(A0[rc])), M1[rc[2]])],
         b |-> [row \in 0..(N - 1) |->
                   FAdd(FAdd(p2[row], FMul(M2[row], FInt(b0[row]))),
                        FMul(M2[row],
                             FSum([c \in 0..(N - 1) |-> FMul(FInt(A0[<<row, c>>]), p1[c])], N)))]]

\* the index grids of get_connectivity: patch p holds start .. end - 1
IndexGrids(sbp) ==
    [p \in 1..Len(sbp) |->
        reshape([x \in 0..(Prod(sbp[p]) - 1) |-> NbNodes(SubSeq(sbp, 1, p - 1)) + x], sbp[p])]

\* the couples of a record with the border of patch 2 left as extracted
RecordCouples_unturned(self, sbp, couple_ind) ==
    LET r == RecordOf(self, couple_ind)
        indices == IndexGrids(sbp)
        border_inds1 == ravel(extract_border_pts(indices[r.spline1_ind + 1], r.axis1, r.front_side1))
        border_inds2 == ravel(extract_border_pts(indices[r.spline2_ind + 1], r.axis2, r.front_side2))
    IN  [x \in 1..Size(border_inds1) |-> <<border_inds1[x - 1], border_inds2[x - 1]>>]

\* the couples get_connectivity appends for the record of index couple_ind
RecordCouples(self, sbp, couple_ind) ==
    LET r == RecordOf(self, couple_ind)
        indices == IndexGrids(sbp)
        border_inds1 == extract_border_pts(indices[r.spline1_ind + 1], r.axis1, r.front_side1)
        border_inds2 == extract_border_pts(indices[r.spline2_ind + 1], r.axis2, r.front_side2)
        border_inds2_turned_and_fliped ==
            transpose_and_flip(border_inds2, r.transpose_2_to_1, r.flip_2_to_1)
        col1 == ravel(border_inds1)
        col2 == ravel(border_inds2_turned_and_fliped)
    IN  [x \in 1..Size(col1) |-> <<col1[x - 1], col2[x - 1]>>]

RECURSIVE CouplesFrom(_, _, _)
\* np.vstack of the couples of the records couple_ind, couple_ind + 1, ...
CouplesFrom(self, sbp, couple_ind) ==
    IF couple_ind >= self.nb_couples THEN <<>>
    ELSE RecordCouples(self, sbp, couple_ind) \o CouplesFrom(self, sbp, couple_ind + 1)

\* get_connectivity up to its call of from_nodes_couples: the nodes_couples
get_connectivity_couples(self, sbp) == CouplesFrom(self, sbp, 0)

\* ---------------------------------------------------------------- the state
VARIABLES
    separated_ctrlPts,  \* argument of from_separated_ctrlPts: one grid of points per patch
    eps,                \* argument of from_separated_ctrlPts
    nodes_couples,      \* argument of from_nodes_couples: sequence of couples <<a, b>>
    shape_by_patch,     \* argument of from_nodes_couples, then attribute of the instance
    parent,             \* union-find scratch array of get_unique_nodes_inds
    rank,               \* union-find scratch array of get_unique_nodes_inds
    k,                  \* number of couples already merged
    i,                  \* number of entries of unique_nodes_inds already written
    unique_nodes_inds,  \* the written prefix during the find loop, then the attribute
    nb_unique_nodes,    \* attribute of the instance
    pc,                 \* position of the construction, then "built" / "ready"
    call,               \* the last method call on the instance: arguments and result
    splines,            \* argument of from_splines: one patch descriptor per patch
    cpl,                \* the lists from_splines appends to, then the CouplesBSplineBorder
    cursor              \* number of boundary pairs from_splines has already searched

vars == <<separated_ctrlPts, eps, nodes_couples, shape_by_patch, parent, rank, k, i,
          unique_nodes_inds, nb_unique_nodes, pc, call, splines, cpl, cursor>>

\* the state of from_splines and of the CouplesBSplineBorder it builds
couplesVars == <<splines, cpl, cursor>>

NoPrev == [op |-> "none", arg |-> <<>>, method |-> ""]

NoCall == [op |-> "none", arg |-> <<>>, method |-> "", ret |-> <<>>, err |-> "none",
           prev |-> NoPrev]

\* the instance the methods act on
Self == Connectivity(unique_nodes_inds, shape_by_patch, nb_unique_nodes)

\* ------------------------------------------------------------------- inputs
\* the patch shapes: every patch has the same number npa of axes
ShapeLists ==
    {sbp \in UNION {[1..n -> [1..d -> 1..MaxExtent]] : n \in 1..MaxPatches, d \in 1..MaxNpa} :
        NbNodes(sbp) <= MaxNodes}

\* lists of at most MaxCouples couples of unpacked nodes of a mesh of n nodes
CoupleLists(n) == UNION {[1..m -> (0..(n - 1)) \X (0..(n - 1))] : m \in 0..MaxCouples}

FieldValues == {<<v, 1>> : v \in 0..MaxVal}

UniqueFields == [0..(nb_unique_nodes - 1) -> FieldValues]

UnpackedFields == [0..(Self.nb_nodes - 1) -> FieldValues]

Methods == {"first", "mean", "median"}

Init ==
    /\ shape_by_patch \in ShapeLists
    /\ nodes_couples \in CoupleLists(NbNodes(shape_by_patch))
    /\ separated_ctrlPts = <<>>
    /\ eps = 0
    /\ parent = <<>>
    /\ rank = <<>>
    /\ k = 0
    /\ i = 0
    /\ unique_nodes_inds = <<>>
    /\ nb_unique_nodes = 0
    /\ pc = "from_nodes_couples"
    /\ call = NoCall
    /\ splines = <<>>
    /\ cpl = <<>>
    /\ cursor = 0

\* ------------------------------------------------------------- construction
\* from_nodes_couples up to the allocation of the scratch arrays
\* of get_unique_nodes_inds
FromNodesCouplesEnter ==
    /\ pc = "from_nodes_couples"
    /\ LET nb_nodes == NbNodes(shape_by_patch)
       IN  /\ parent' = [x \in 0..(nb_nodes - 1) |-> x]
           /\ rank' = [x \in 0..(nb_nodes - 1) |-> 0]
    /\ k' = 0
    /\ i' = 0
    /\ unique_nodes_inds' = <<>>
    /\ pc' = "get_unique_nodes_inds"
    /\ UNCHANGED <<separated_ctrlPts, eps, nodes_couples, shape_by_patch,
                   nb_unique_nodes, call>>
    /\ UNCHANGED couplesVars

\* one iteration of: for a, b in nodes_couples: union(parent, rank, a, b)
UnionStep ==
    /\ pc = "get_unique_nodes_inds"
    /\ k < Len(nodes_couples)
    /\ LET r == union(parent, rank, nodes_couples[k + 1][1], nodes_couples[k + 1][2])
       IN  /\ parent' = r.parent
           /\ rank' = r.rank
    /\ k' = k + 1
    /\ UNCHANGED <<separated_ctrlPts, eps, nodes_couples, shape_by_patch, i,
                   unique_nodes_inds, nb_unique_nodes, pc, call>>
    /\ UNCHANGED couplesVars

\* one iteration of: unique_nodes_inds[i] = find(parent, i)
FindStep ==
    /\ pc = "get_unique_nodes_inds"
    /\ k = Len(nodes_couples)
    /\ i < NbNodes(shape_by_patch)
    /\ LET r == find(parent, i)
       IN  /\ parent' = r.parent
           /\ unique_nodes_inds' = [j \in 0..i |-> IF j = i THEN r.root ELSE unique_nodes_inds[j]]
    /\ i' = i + 1
    /\ UNCHANGED <<separated_ctrlPts, eps, nodes_couples, shape_by_patch, rank, k,
                   nb_unique_nodes, pc, call>>
    /\ UNCHANGED couplesVars

\* the rest of from_nodes_couples: relabel the roots and build the instance
FromNodesCouplesReturn ==
    /\ pc = "get_unique_nodes_inds"
    /\ k = Len(nodes_couples)
    /\ i = NbNodes(shape_by_patch)
    /\ unique_nodes_inds' = Canonicalize(unique_nodes_inds)
    /\ nb_unique_nodes' = NbDistinct(unique_nodes_inds')
    /\ pc' = "built"
    /\ UNCHANGED <<separated_ctrlPts, eps, nodes_couples, shape_by_patch, parent, rank,
                   k, i, call>>
    /\ UNCHANGED couplesVars

\* ------------------------------------------------------------------ methods
\* The methods are pure: they read the instance and never write it.  A call
\* with fresh arguments is therefore taken right after the construction
\* (pc = "built"), which reaches every pair (instance, call); the chained
\* calls (pc = "ready") feed a method with what the previous one returned.
\* a method runs on a built instance; the constructor's arguments and its
\* scratch arrays are gone by then
MethodCall(c, after) ==
    /\ call' = c
    /\ pc' = "ready"
    /\ separated_ctrlPts' = <<>>
    /\ eps' = 0
    /\ nodes_couples' = <<>>
    /\ parent' = <<>>
    /\ rank' = <<>>
    /\ k' = 0
    /\ i' = 0
    /\ unique_nodes_inds' = after.unique_nodes_inds
    /\ shape_by_patch' = after.shape_by_patch
    /\ nb_unique_nodes' = after.nb_unique_nodes
    /\ UNCHANGED couplesVars

Unpack ==
    /\ pc = "built"
    /\ \E u \in UniqueFields :
        MethodCall([op |-> "unpack", arg |-> u, method |-> "", ret |-> unpack(Self, u),
                    err |-> "none", prev |-> NoPrev], Self)

\* unpack applied to what pack has just returned
UnpackPacked ==
    /\ pc = "ready"
    /\ call.op = "pack"
    /\ call.err = "none"
    /\ call.prev.op = "none"
    /\ MethodCall([op |-> "unpack", arg |-> call.ret, method |-> "",
                   ret |-> unpack(Self, call.ret), err |-> "none",
                   prev |-> [op |-> "pack", arg |-> call.arg, method |-> call.method]], Self)

Pack ==
    /\ pc = "built"
    /\ \E x \in UnpackedFields, m \in Methods :
        LET r == pack(Self, x, m)
        IN  MethodCall([op |-> "pack", arg |-> x, method |-> m, ret |-> r.ret,
                        err |-> r.err, prev |-> NoPrev], Self)

\* pack applied to what unpack has just returned
PackUnpacked ==
    /\ pc = "ready"
    /\ call.op = "unpack"
    /\ call.prev.op = "none"
    /\ \E m \in Methods :
        LET r == pack(Self, call.ret, m)
        IN  MethodCall([op |-> "pack", arg |-> call.ret, method |-> m, ret |-> r.ret,
                        err |-> r.err,
                        prev |-> [op |-> "unpack", arg |-> call.arg, method |-> ""]], Self)

Separate ==
    /\ pc = "built"
    /\ \E x \in UnpackedFields :
        MethodCall([op |-> "separate", arg |-> x, method |-> "", ret |-> separate(Self, x),
                    err |-> "none", prev |-> NoPrev], Self)

\* agglomerate applied to what separate has just returned
Agglomerate ==
    /\ pc = "ready"
    /\ call.op = "separate"
    /\ LET r == agglomerate(Self, call.ret)
       IN  MethodCall([op |-> "agglomerate", arg |-> call.ret, method |-> "",
                       ret |-> r.ret, err |-> r.err,
                       prev |-> [op |-> "separate", arg |-> call.arg, method |-> ""]], Self)

GetDuplicateUnpackedNodesMask ==
    /\ pc = "built"
    /\ MethodCall([op |-> "get_duplicate_unpacked_nodes_mask", arg |-> <<>>, method |-> "",
                ret |-> get_duplicate_unpacked_nodes_mask(Self), err |-> "none",
                prev |-> NoPrev], Self)

ExtractExteriorBorders ==
    /\ pc = "built"
    /\ LET r == extract_exterior_borders(Self, Splines(shape_by_patch))
       IN  MethodCall([op |-> "extract_exterior_borders", arg |-> Splines(shape_by_patch),
                    method |-> "", ret |-> r.ret, err |-> r.err, prev |-> NoPrev],
                      r.self)

ExtractInteriorBorders ==
    /\ pc = "built"
    /\ LET r == extract_interior_borders(Self, Splines(shape_by_patch))
       IN  MethodCall([op |-> "extract_interior_borders", arg |-> Splines(shape_by_patch),
                    method |-> "", ret |-> r.ret, err |-> r.err, prev |-> NoPrev],
                      r.self)

\* the lists of at most MaxKeep patches to keep, in any order, repeats allowed
PatchesToKeep ==
    UNION {[1..n -> 0..(Len(shape_by_patch) - 1)] : n \in 0..MaxKeep}

Subset ==
    /\ pc = "built"
    /\ \E patches_to_keep \in PatchesToKeep :
        LET r == subset(Self, Splines(shape_by_patch), patches_to_keep)
        IN  MethodCall([op |-> "subset", arg |-> patches_to_keep, method |-> "",
                        ret |-> r.ret, err |-> r.err, prev |-> NoPrev], r.self)

Next ==
    \/ FromNodesCouplesEnter
    \/ UnionStep
    \/ FindStep
    \/ FromNodesCouplesReturn
    \/ Unpack
    \/ UnpackPacked
    \/ Pack
    \/ PackUnpacked
    \/ Separate
    \/ Agglomerate
    \/ GetDuplicateUnpackedNodesMask
    \/ ExtractExteriorBorders
    \/ ExtractInteriorBorders
    \/ Subset

Spec == Init /\ [][Next]_vars

\* ------------------------------------------------------ geometric inputs
\* number of physical dimensions of a grid of points
NPhOf(ctrlPts) == Len(ctrlPts.at[[a \in 1..Len(ctrlPts.shape) |-> 0]])

\* a lattice patch: the node of index idx sits at origin + sum of idx[a] along
\* the physical axis dirs[a]
Grid(shape, origin, dirs) ==
    [shape |-> shape,
     at |-> [idx \in Indices(shape) |->
               [c \in 1..Len(origin) |->
                   origin[c] + (IF \E a \in 1..Len(shape) : dirs[a] = c
                                THEN idx[CHOOSE a \in 1..Len(shape) : dirs[a] = c]
                                ELSE 0)]]]

Perms(n) == {f \in [1..n -> 1..n] : \A a, b \in 1..n : a # b => f[a] # f[b]}

\* 1 to MaxGeomPatches patches on a line
LineInputs ==
    UNION {[1..n -> {Grid(<<e>>, <<o>>, <<1>>) : e \in 1..MaxExtent, o \in 0..MaxCoord}] :
              n \in 1..MaxGeomPatches}

\* two patches in the plane, the first at the origin, in any orientation
PlaneInputs ==
    {<<Grid(s1, <<0, 0>>, d1), Grid(s2, o2, d2)>> :
        s1 \in [1..2 -> 1..MaxExtent], d1 \in Perms(2),
        s2 \in [1..2 -> 1..MaxExtent], d2 \in Perms(2),
        o2 \in (0..MaxCoord) \X (0..MaxCoord)}

\* two unit cubes of 2 x 2 x 2 nodes, the first at the origin, the second
\* shifted by at most one cell along each axis, in any orientation
CubeInputs ==
    {<<Grid(<<2, 2, 2>>, <<0, 0, 0>>, d1), Grid(<<2, 2, 2>>, o2, d2)>> :
        d1 \in Perms(3), d2 \in Perms(3),
        o2 \in ((0..1) \X (0..1) \X (0..1)) \ {<<0, 0, 0>>}}

InitGeom ==
    /\ separated_ctrlPts \in LineInputs \cup PlaneInputs \cup CubeInputs
    /\ eps \in 0..MaxEps
    /\ nodes_couples = <<>>
    /\ shape_by_patch = <<>>
    /\ parent = <<>>
    /\ rank = <<>>
    /\ k = 0
    /\ i = 0
    /\ unique_nodes_inds = <<>>
    /\ nb_unique_nodes = 0
    /\ pc = "from_separated_ctrlPts"
    /\ call = NoCall
    /\ splines = <<>>
    /\ cpl = <<>>
    /\ cursor = 0

\* from_separated_ctrlPts up to its call of from_nodes_couples
FromSeparatedCtrlPts ==
    /\ pc = "from_separated_ctrlPts"
    /\ LET NPh == NPhOf(separated_ctrlPts[1])
       IN  IF \A q \in 1..Len(separated_ctrlPts) : NPhOf(separated_ctrlPts[q]) = NPh
           THEN /\ shape_by_patch' = [q \in 1..Len(separated_ctrlPts) |->
                                         separated_ctrlPts[q].shape]
                /\ nodes_couples' = CtrlPtsCouples(separated_ctrlPts, eps)
                /\ pc' = "from_nodes_couples"
           ELSE /\ pc' = "AssertionError"
                /\ UNCHANGED <<shape_by_patch, nodes_couples>>
    /\ UNCHANGED <<separated_ctrlPts, eps, parent, rank, k, i, unique_nodes_inds,
                   nb_unique_nodes, call>>
    /\ UNCHANGED couplesVars

NextGeom ==
    \/ FromSeparatedCtrlPts
    \/ FromNodesCouplesEnter
    \/ UnionStep
    \/ FindStep
    \/ FromNodesCouplesReturn
    \/ GetDuplicateUnpackedNodesMask
    \/ ExtractExteriorBorders
    \/ ExtractInteriorBorders

SpecGeom == InitGeom /\ [][NextGeom]_vars

\* ------------------------------------------- inputs of from_splines
\* a lattice patch whose axis a runs along the physical axis dirs[a], forwards
\* (signs[a] = 1) or backwards (signs[a] = -1)
OrientedGrid(shape, origin, dirs, signs) ==
    [shape |-> shape,
     at |-> [idx \in Indices(shape) |->
               [c \in 1..Len(origin) |->
                   origin[c] + (IF \E a \in 1..Len(shape) : dirs[a] = c
                                THEN LET a == CHOOSE a \in 1..Len(shape) : dirs[a] = c
                                     IN  signs[a] * idx[a]
                                ELSE 0)]]]

\* a wedge of 2 x 2 nodes whose edge of index 0 along its first axis is
\* collapsed to the point (0, 0)
Wedge(sx, sy) ==
    [shape |-> <<2, 2>>,
     at |-> [idx \in Indices(<<2, 2>>) |-> <<sx * idx[1], sy * idx[1] * idx[2]>>]]

\* the bases of the patches: linear on 2 nodes, linear on 3 nodes with a
\* knot vector that is not symmetric, its reflection, linear on 3 nodes with
\* a symmetric knot vector, quadratic on 3 nodes
Linear2 == BSplineBasis(1, <<0, 0, 1, 1>>)
Linear3Skew == BSplineBasis(1, <<0, 0, 1, 3, 3>>)
Linear3SkewReflected == BSplineBasis(1, <<0, 0, 2, 3, 3>>)
Linear3 == BSplineBasis(1, <<0, 0, 1, 2, 2>>)
Quadratic3 == BSplineBasis(2, <<0, 0, 0, 1, 1, 1>>)

\* the grid shape of a patch descriptor
ShapeOf(spline) == [a \in 1..Len(spline.bases) |-> NbCtrlPts(spline.bases[a])]

Signs(n) == [1..n -> {1, -1}]

\* two patches in the plane: the first of 2 x 3 nodes at the origin, the
\* second of 2 x 3 or 3 x 2 nodes anywhere around it, in any orientation
PlaneCouplesInputs ==
    {[ctrl_pts |-> <<OrientedGrid(<<2, 3>>, <<0, 0>>, <<1, 2>>, <<1, 1>>),
                     OrientedGrid(ShapeOf(BSpline(b2)), o2, d2, s2)>>,
      splines |-> <<BSpline(<<Linear2, Linear3Skew>>), BSpline(b2)>>] :
        b2 \in {<<Linear2, Linear3Skew>>, <<Linear3Skew, Linear2>>,
                <<Linear2, Linear3SkewReflected>>, <<Linear3SkewReflected, Linear2>>},
        o2 \in ((-1)..MaxShift) \X ((-MaxShift)..(MaxShift + 2)),
        d2 \in Perms(2), s2 \in Signs(2)}

\* two unit cubes of 2 x 2 x 2 nodes: the first at the origin, the second in
\* the same cell or in one of the six cells next to it, in any orientation
CubeCouplesInputs ==
    {[ctrl_pts |-> <<OrientedGrid(<<2, 2, 2>>, <<0, 0, 0>>, <<1, 2, 3>>, <<1, 1, 1>>),
                     OrientedGrid(<<2, 2, 2>>,
                                  [c \in 1..3 |->
                                      e[c] + (IF s2[CHOOSE a \in 1..3 : d2[a] = c] = -1
                                              THEN 1 ELSE 0)],
                                  d2, s2)>>,
      splines |-> <<BSpline(<<Linear2, Linear2, Linear2>>),
                    BSpline(<<Linear2, Linear2, Linear2>>)>>] :
        e \in {f \in [1..3 -> {-1, 0, 1}] : Cardinality({c \in 1..3 : f[c] # 0}) <= 1},
        d2 \in Perms(3), s2 \in Signs(3)}

\* two patches of 2 x 3 x 3 nodes with one basis per axis (linear, linear on
\* 3 nodes, quadratic): the second is laid against one of the two 3 x 3 faces
\* of the first, node on node, in any orientation and with its two bases of
\* 3 nodes in either order
AnisotropicCouplesInputs ==
    {LET b2 == [a \in 1..3 |-> IF a = thin THEN Linear2
                               ELSE IF (a = Min((1..3) \ {thin})) = first THEN Linear3
                                    ELSE Quadratic3]
         d2 == [a \in 1..3 |-> IF a = thin THEN 1
                               ELSE IF (a = Min((1..3) \ {thin})) = along THEN 2 ELSE 3]
         o2 == [c \in 1..3 |->
                   LET sgn == s2[CHOOSE a \in 1..3 : d2[a] = c]
                   IN  IF c = 1 THEN side + (IF sgn = -1 THEN 1 ELSE 0)
                       ELSE IF sgn = -1 THEN 2 ELSE 0]
     IN  [ctrl_pts |-> <<OrientedGrid(<<2, 3, 3>>, <<0, 0, 0>>, <<1, 2, 3>>, <<1, 1, 1>>),
                         OrientedGrid(ShapeOf(BSpline(b2)), o2, d2, s2)>>,
          splines |-> <<BSpline(<<Linear2, Linear3, Quadratic3>>), BSpline(b2)>>] :
        thin \in 1..3, first \in BOOLEAN, along \in BOOLEAN, side \in {-1, 1},
        s2 \in Signs(3)}

\* two wedges that share their collapsed edge
WedgeCouplesInputs ==
    {[ctrl_pts |-> <<Wedge(1, 1), Wedge(sx, sy)>>,
      splines |-> <<BSpline(<<Linear2, Linear2>>), BSpline(<<Linear2, Linear2>>)>>] :
        sx \in {1, -1}, sy \in {1, -1}}

\* one, then three unit squares in a row, the middle one in any orientation
RowCouplesInputs ==
    {[ctrl_pts |-> <<OrientedGrid(<<2, 2>>, <<0, 0>>, <<1, 2>>, <<1, 1>>)>>,
      splines |-> <<BSpline(<<Linear2, Linear2>>)>>]}
    \cup
    {[ctrl_pts |-> <<OrientedGrid(<<2, 2>>, <<0, 0>>, <<1, 2>>, <<1, 1>>),
                     OrientedGrid(<<2, 2>>,
                                  [c \in 1..2 |->
                                      (IF c = 1 THEN 1 ELSE 0)
                                      + (IF s2[CHOOSE a \in 1..2 : d2[a] = c] = -1
                                         THEN 1 ELSE 0)],
                                  d2, s2),
                     OrientedGrid(<<2, 2>>, <<2, 0>>, <<1, 2>>, <<1, 1>>)>>,
      splines |-> <<BSpline(<<Linear2, Linear2>>), BSpline(<<Linear2, Linear2>>),
                    BSpline(<<Linear2, Linear2>>)>>] :
        d2 \in Perms(2), s2 \in Signs(2)}

\* patches that disagree on the parametric, then on the physical dimension
MismatchedCouplesInputs ==
    {[ctrl_pts |-> <<OrientedGrid(<<2, 2>>, <<0, 0>>, <<1, 2>>, <<1, 1>>),
                     OrientedGrid(<<2, 2, 2>>, <<0, 0, 0>>, <<1, 2, 3>>, <<1, 1, 1>>)>>,
      splines |-> <<BSpline(<<Linear2, Linear2>>),
                    BSpline(<<Linear2, Linear2, Linear2>>)>>],
     [ctrl_pts |-> <<OrientedGrid(<<2, 2>>, <<0, 0>>, <<1, 2>>, <<1, 1>>),
                     OrientedGrid(<<2, 2>>, <<1, 0, 0>>, <<1, 2>>, <<1, 1>>)>>,
      splines |-> <<BSpline(<<Linear2, Linear2>>), BSpline(<<Linear2, Linear2>>)>>]}

CouplesInputs ==
    PlaneCouplesInputs \cup CubeCouplesInputs \cup AnisotropicCouplesInputs
    \cup WedgeCouplesInputs \cup RowCouplesInputs \cup MismatchedCouplesInputs

InitCouples ==
    /\ \E input \in CouplesInputs :
          /\ separated_ctrlPts = input.ctrl_pts
          /\ splines = input.splines
    /\ eps = 0
    /\ nodes_couples = <<>>
    /\ shape_by_patch = <<>>
    /\ parent = <<>>
    /\ rank = <<>>
    /\ k = 0
    /\ i = 0
    /\ unique_nodes_inds = <<>>
    /\ nb_unique_nodes = 0
    /\ pc = "from_splines"
    /\ call = NoCall
    /\ cpl = <<>>
    /\ cursor = 0

\* ------------------------------------------------------------ from_splines
\* the two assertions and the empty lists
FromSplinesEnter ==
    /\ pc = "from_splines"
    /\ LET NPa == Len(splines[1].bases)
           NPh == NPhOf(separated_ctrlPts[1])
       IN  IF /\ \A p \in 1..Len(splines) : Len(splines[p].bases) = NPa
              /\ \A p \in 1..Len(separated_ctrlPts) : NPhOf(separated_ctrlPts[p]) = NPh
           THEN pc' = "from_splines_loop"
           ELSE pc' = "AssertionError"
    /\ cpl' = <<>>
    /\ cursor' = 0
    /\ UNCHANGED <<separated_ctrlPts, eps, nodes_couples, shape_by_patch, parent, rank, k, i,
                   unique_nodes_inds, nb_unique_nodes, call, splines>>

\* the search of one pair of patches (spline1_ind, spline2_ind): the loops
\* over axis1, axis2, front_side1, front_side2, transpose and flip
FromSplinesPair ==
    /\ pc = "from_splines_loop"
    /\ cursor < Len(PatchPairs(Len(splines)))
    /\ LET pair == PatchPairs(Len(splines))[cursor + 1]
       IN  cpl' = cpl \o PairRecords(separated_ctrlPts, splines, pair[1], pair[2])
    /\ cursor' = cursor + 1
    /\ UNCHANGED <<separated_ctrlPts, eps, nodes_couples, shape_by_patch, parent, rank, k, i,
                   unique_nodes_inds, nb_unique_nodes, pc, call, splines>>

\* the conversion of the lists and the construction of the instance
FromSplinesReturn ==
    /\ pc = "from_splines_loop"
    /\ cursor = Len(PatchPairs(Len(splines)))
    /\ cpl' = CouplesBSplineBorder(cpl, Len(splines[1].bases))
    /\ pc' = "couples"
    /\ UNCHANGED <<separated_ctrlPts, eps, nodes_couples, shape_by_patch, parent, rank, k, i,
                   unique_nodes_inds, nb_unique_nodes, call, splines, cursor>>

\* get_operator_allxi1_to_allxi2 called, as the demonstrations do, with the
\* spans of the two patches of the record
GetOperator ==
    /\ pc = "couples"
    /\ \E couple_ind \in 0..(cpl.nb_couples - 1) :
          LET spans1 == getSpans(splines[cpl.spline1_inds[couple_ind + 1] + 1])
              spans2 == getSpans(splines[cpl.spline2_inds[couple_ind + 1] + 1])
          IN  call' = [op |-> "get_operator_allxi1_to_allxi2", arg |-> couple_ind,
                       method |-> "",
                       ret |-> get_operator_allxi1_to_allxi2(cpl, spans1, spans2, couple_ind),
                       err |-> "none", prev |-> NoPrev]
    /\ pc' = "operator"
    /\ UNCHANGED <<separated_ctrlPts, eps, nodes_couples, shape_by_patch, parent, rank, k, i,
                   unique_nodes_inds, nb_unique_nodes, splines, cpl, cursor>>

\* get_connectivity called with the shapes of the control point grids, up to
\* its call of from_nodes_couples. Without any record nodes_couples stays an
\* empty Python list, which the compiled get_unique_nodes_inds either takes
\* as no couple at all or refuses for want of an element type.
GetConnectivity ==
    /\ pc = "couples"
    /\ shape_by_patch' = [p \in 1..Len(separated_ctrlPts) |-> separated_ctrlPts[p].shape]
    /\ nodes_couples' = get_connectivity_couples(cpl, shape_by_patch')
    /\ \/ pc' = "from_nodes_couples"
       \/ /\ cpl.nb_couples = 0
          /\ pc' = "TypingError"
    /\ UNCHANGED <<separated_ctrlPts, eps, parent, rank, k, i, unique_nodes_inds,
                   nb_unique_nodes, call, splines, cpl, cursor>>

NextCouples ==
    \/ FromSplinesEnter
    \/ FromSplinesPair
    \/ FromSplinesReturn
    \/ GetOperator
    \/ GetConnectivity
    \/ FromNodesCouplesEnter
    \/ UnionStep
    \/ FindStep
    \/ FromNodesCouplesReturn

SpecCouples == InitCouples /\ [][NextCouples]_vars

\* ------------------------------------- inputs of transpose_and_flip_knots
\* the knot vector of one axis with its span [min, max]
KnotAxes ==
    {[knot |-> <<0, 0, 1, 1>>, span |-> <<0, 1>>],
     [knot |-> <<0, 0, 1, 3, 3>>, span |-> <<0, 3>>],
     [knot |-> <<0, 0, 2, 3, 3>>, span |-> <<0, 3>>],
     [knot |-> <<1, 1, 2, 2>>, span |-> <<1, 2>>],
     [knot |-> <<0, 0, 0, 1, 1, 1>>, span |-> <<0, 1>>]}

\* the arguments (knots, spans, transpose, flip) for boundaries of 1 to
\* MaxFaceAxes axes
KnotsInputs ==
    UNION {{[knots |-> [a \in 1..n |-> axes[a].knot],
             spans |-> [a \in 1..n |-> axes[a].span],
             transpose |-> t,
             flip |-> f] :
               axes \in [1..n -> KnotAxes],
               t \in Range(all_transpose(n + 1)),
               f \in Range(all_flip(n + 1))} : n \in 1..MaxFaceAxes}

InitKnots ==
    /\ separated_ctrlPts = <<>>
    /\ eps = 0
    /\ nodes_couples = <<>>
    /\ shape_by_patch = <<>>
    /\ parent = <<>>
    /\ rank = <<>>
    /\ k = 0
    /\ i = 0
    /\ unique_nodes_inds = <<>>
    /\ nb_unique_nodes = 0
    /\ pc = "transpose_and_flip_knots"
    /\ \E input \in KnotsInputs : call = [NoCall EXCEPT !.arg = input]
    /\ splines = <<>>
    /\ cpl = <<>>
    /\ cursor = 0

\* the call transpose_and_flip_knots(knots, spans, transpose, flip)
TransposeAndFlipKnots ==
    /\ pc = "transpose_and_flip_knots"
    /\ call' = [op |-> "transpose_and_flip_knots", arg |-> call.arg, method |-> "",
                ret |-> transpose_and_flip_knots(call.arg.knots, call.arg.spans,
                                                 call.arg.transpose, call.arg.flip),
                err |-> "none", prev |-> NoPrev]
    /\ pc' = "returned"
    /\ UNCHANGED <<separated_ctrlPts, eps, nodes_couples, shape_by_patch, parent, rank, k, i,
                   unique_nodes_inds, nb_unique_nodes, splines, cpl, cursor>>

NextKnots == TransposeAndFlipKnots

SpecKnots == InitKnots /\ [][NextKnots]_vars

\* -------------------------------------------- inputs of the union-find
\* one patch of 1 to MaxForest nodes and any list of at most MaxUnions
\* couples of its nodes
InitForest ==
    /\ \E n \in 1..MaxForest :
          /\ shape_by_patch = <<<<n>>>>
          /\ nodes_couples \in UNION {[1..m -> (0..(n - 1)) \X (0..(n - 1))] : m \in 0..MaxUnions}
    /\ separated_ctrlPts = <<>>
    /\ eps = 0
    /\ parent = <<>>
    /\ rank = <<>>
    /\ k = 0
    /\ i = 0
    /\ unique_nodes_inds = <<>>
    /\ nb_unique_nodes = 0
    /\ pc = "from_nodes_couples"
    /\ call = NoCall
    /\ splines = <<>>
    /\ cpl = <<>>
    /\ cursor = 0

NextForest ==
    \/ FromNodesCouplesEnter
    \/ UnionStep
    \/ FindStep
    \/ FromNodesCouplesReturn

SpecForest == InitForest /\ [][NextForest]_vars

\* ------------------------------------------- inputs with unequal extents
\* the shapes of 2 or 3 axes, of extents 1..MaxSide, with at most n nodes
BoxShapes(n) ==
    UNION {{sh \in [1..npa -> 1..MaxSide] : Prod(sh) <= n} : npa \in 2..3}

\* one box and at most one couple of its nodes
BoxCouplesInputs ==
    UNION {{[shape_by_patch |-> <<sh>>, nodes_couples |-> c] :
               c \in {<<>>} \cup {<<<<a, b>>>> : a, b \in 0..(Prod(sh) - 1)}} :
           sh \in BoxShapes(MaxBoxNodes)}

\* two boxes of 3 axes in space, the first at the origin, the second at the
\* origin or one cell further along one axis
BoxCtrlPtsInputs ==
    {<<Grid(s1, <<0, 0, 0>>, <<1, 2, 3>>), Grid(s2, o2, <<1, 2, 3>>)>> :
        s1 \in {sh \in BoxShapes(MaxGridNodes) : Len(sh) = 3},
        s2 \in {sh \in BoxShapes(MaxGridNodes) : Len(sh) = 3},
        o2 \in {<<0, 0, 0>>, <<1, 0, 0>>, <<0, 1, 0>>, <<0, 0, 1>>}}

InitSizes ==
    /\ \/ /\ \E input \in BoxCouplesInputs :
                /\ shape_by_patch = input.shape_by_patch
                /\ nodes_couples = input.nodes_couples
          /\ separated_ctrlPts = <<>>
          /\ eps = 0
          /\ pc = "from_nodes_couples"
       \/ /\ separated_ctrlPts \in BoxCtrlPtsInputs
          /\ eps = 1
          /\ shape_by_patch = <<>>
          /\ nodes_couples = <<>>
          /\ pc = "from_separated_ctrlPts"
    /\ parent = <<>>
    /\ rank = <<>>
    /\ k = 0
    /\ i = 0
    /\ unique_nodes_inds = <<>>
    /\ nb_unique_nodes = 0
    /\ call = NoCall
    /\ splines = <<>>
    /\ cpl = <<>>
    /\ cursor = 0

NextSizes ==
    \/ FromSeparatedCtrlPts
    \/ FromNodesCouplesEnter
    \/ UnionStep
    \/ FindStep
    \/ FromNodesCouplesReturn
    \/ ExtractExteriorBorders
    \/ ExtractInteriorBorders
    \/ Subset

SpecSizes == InitSizes /\ [][NextSizes]_vars

\* ------------------------------------------------- vocabulary of the claims
\* the unpacked nodes of the mesh
Nodes == 0..(NbNodes(shape_by_patch) - 1)

\* the couples read in both directions
SymmetricEdges(couples) ==
    {<<couples[m][1], couples[m][2]>> : m \in DOMAIN couples}
    \cup {<<couples[m][2], couples[m][1]>> : m \in DOMAIN couples}

RECURSIVE ReachableFrom(_, _)
\* the nodes joined to a node of S by a chain of edges
ReachableFrom(S, E) ==
    LET T == S \cup {e[2] : e \in {f \in E : f[1] \in S}}
    IN  IF T = S THEN S ELSE ReachableFrom(T, E)

\* the class of x in the reflexive-symmetric-transitive closure of the edges
ClassOf(x, E) == ReachableFrom({x}, E)

\* the slots of unique_nodes_inds that carry the same unique index as slot x
SameUnique(x) == {y \in DOMAIN unique_nodes_inds : unique_nodes_inds[y] = unique_nodes_inds[x]}

\* ----------------------------------------------------------------------- C1
\* C1 (canonicality): in every Connectivity built by from_nodes_couples the
\* distinct values of unique_nodes_inds are exactly 0..nb_unique_nodes-1, and
\* nb_unique_nodes is the number of equivalence classes of the given couples.
C1_Canonicality ==
    pc = "built" =>
        /\ DOMAIN unique_nodes_inds = Nodes
        /\ Range(unique_nodes_inds) = 0..(nb_unique_nodes - 1)
        /\ nb_unique_nodes =
               Cardinality({ClassOf(x, SymmetricEdges(nodes_couples)) : x \in Nodes})

\* a built mesh whose roots were not contiguous: some node was relabeled, and
\* there are several classes, one of them with several nodes
C1_Witness ==
    /\ pc = "built"
    /\ nb_unique_nodes > 1
    /\ nb_unique_nodes < NbNodes(shape_by_patch)
    /\ \E x \in Nodes : find(parent, x).root # unique_nodes_inds[x]
    /\ \E x \in Nodes : find(parent, x).root # 0 /\ unique_nodes_inds[x] = 0

\* ----------------------------------------------------------------------- C2
\* C2 (merge correctness): after from_nodes_couples two unpacked nodes carry
\* the same unique index if and only if a chain of the given couples links
\* them; a node in no couple is alone in its class.
C2_MergeCorrectness ==
    pc = "built" =>
        \A x \in Nodes : SameUnique(x) = ClassOf(x, SymmetricEdges(nodes_couples))

\* a chain a - b - c given without the couple (a, c), merged into one class,
\* beside a node that stays alone
C2_Witness ==
    /\ pc = "built"
    /\ \E a, b, c \in Nodes :
          /\ a # b /\ b # c /\ a # c
          /\ {<<a, b>>, <<b, c>>} \subseteq SymmetricEdges(nodes_couples)
          /\ <<a, c>> \notin SymmetricEdges(nodes_couples)
          /\ unique_nodes_inds[a] = unique_nodes_inds[c]
    /\ \E x \in Nodes : SameUnique(x) = {x}

\* ----------------------------------------------------------------------- C3
\* C3 (round trip): for a unique-space array u, pack(unpack(u), 'first')
\* returns u.
C3_PackUnpackRoundTrip ==
    (call.op = "pack" /\ call.method = "first" /\ call.prev.op = "unpack") =>
        /\ call.err = "none"
        /\ call.ret = call.prev.arg

\* the round trip on a mesh with a shared node and a field that is not constant
C3_Witness ==
    /\ call.op = "pack" /\ call.method = "first" /\ call.prev.op = "unpack"
    /\ nb_unique_nodes < NbNodes(shape_by_patch)
    /\ \E u, v \in DOMAIN call.prev.arg : call.prev.arg[u] # call.prev.arg[v]
    /\ \E x \in Nodes : SameUnique(x) # {x} /\ call.arg[x] # Zero

\* ----------------------------------------------------------------------- C4
\* first slot of patch p (1-based position in shape_by_patch)
PatchOffset(p) == NbNodes(SubSeq(shape_by_patch, 1, p - 1))

RECURSIVE LexLess(_, _)
\* lexicographic order of index tuples: the first axis is the slowest
LexLess(a, b) ==
    /\ Len(a) > 0
    /\ \/ Head(a) < Head(b)
       \/ Head(a) = Head(b) /\ LexLess(Tail(a), Tail(b))

\* rank of the index tuple idx among the index tuples of a grid
LexPos(idx, shape) == Cardinality({j \in Indices(shape) : LexLess(j, idx)})

\* C4: agglomerate(separate(x)) = x for every unpacked field x; separate
\* yields one array per patch, in patch order, the p-th of shape
\* shape_by_patch[p] and holding the Prod(shape_by_patch[p]) consecutive slots
\* of that patch, the last axis running fastest.
C4_SeparateAgglomerate ==
    /\ (call.op = "agglomerate" /\ call.prev.op = "separate") =>
           /\ call.err = "none"
           /\ call.ret = call.prev.arg
    /\ call.op = "separate" =>
           /\ Len(call.ret) = Len(shape_by_patch)
           /\ \A p \in 1..Len(shape_by_patch) :
                 /\ call.ret[p].shape = shape_by_patch[p]
                 /\ DOMAIN call.ret[p].at = Indices(shape_by_patch[p])
                 /\ \A idx \in Indices(shape_by_patch[p]) :
                       call.ret[p].at[idx]
                           = call.arg[PatchOffset(p) + LexPos(idx, shape_by_patch[p])]

\* two patches, the second of shape (2, 1), a field that differs between the
\* patches and inside the second one, separated then agglomerated
C4_Witness ==
    /\ call.op = "agglomerate" /\ call.prev.op = "separate"
    /\ Len(shape_by_patch) = 2
    /\ shape_by_patch[2] = <<2, 1>>
    /\ call.ret[0] # call.ret[PatchOffset(2)]
    /\ call.ret[PatchOffset(2)] # call.ret[PatchOffset(2) + 1]

\* ----------------------------------------------------------------------- C5
\* the slots of one unique node hold equal values in the unpacked field x
Agrees(x) ==
    \A a, b \in DOMAIN x : unique_nodes_inds[a] = unique_nodes_inds[b] => x[a] = x[b]

C9_DuplicateMask ==
    call.op = "get_duplicate_unpacked_nodes_mask" =>
        /\ DOMAIN call.ret = Nodes
        /\ \A x \in Nodes : call.ret[x] \in BOOLEAN
        /\ \A x \in Nodes : call.ret[x] <=> Cardinality(SameUnique(x)) >= 2

\* a mask with a true slot and a false slot
C9_Witness ==
    /\ call.op = "get_duplicate_unpacked_nodes_mask"
    /\ \E x, y \in Nodes : call.ret[x] /\ ~call.ret[y]

\* ----------------------------------------------------------------------- C8
\* every extremal slice of the mesh: patch (0-based), axis, index 0 or -1
ExtremalSlices ==
    {[patch |-> p, axis |-> a, side |-> sd] :
        p \in 0..(Len(shape_by_patch) - 1), a \in 0..(Self.npa - 1), sd \in {0, -1}}

\* the unpacked slots of the nodes of an extremal slice
SliceSlots(s) ==
    LET shape == shape_by_patch[s.patch + 1]
        fixed == IF s.side = 0 THEN 0 ELSE shape[s.axis + 1] - 1
    IN  {PatchOffset(s.patch + 1) + LexPos(idx, shape) :
            idx \in {j \in Indices(shape) : j[s.axis + 1] = fixed}}

\* the unique node of slot x is shared by at least two slots
IsDuplicate(x) == Cardinality(SameUnique(x)) >= 2

AllDuplicate(s) == \A x \in SliceSlots(s) : IsDuplicate(x)

\* the slices a border extraction has collected (none when it failed)
CollectedSlices == IF call.err = "none" THEN Range(call.ret.slices) ELSE {}

\* C8 (border classification): for every patch, axis and extremal slice,
\* extract_exterior_borders collects the slice if and only if not every node
\* of it is duplicate, extract_interior_borders if and only if every node of
\* it is duplicate; each collected slice gives one border patch.
C8_BorderClassification ==
    /\ (call.op = "extract_exterior_borders" /\ Self.npa >= 2) =>
           \A s \in ExtremalSlices : s \in CollectedSlices <=> ~AllDuplicate(s)
    /\ (call.op = "extract_interior_borders" /\ Self.npa >= 2) =>
           \A s \in ExtremalSlices : s \in CollectedSlices <=> AllDuplicate(s)
    /\ (call.op \in {"extract_exterior_borders", "extract_interior_borders"}
        /\ call.err = "none") =>
           /\ Len(call.ret.border_splines) = Cardinality(CollectedSlices)
           /\ call.ret.border_connectivity.nb_patchs = Cardinality(CollectedSlices)

\* an exterior extraction that collects a slice holding a duplicate node and
\* a node that is not, and leaves out a slice whose nodes are all duplicate
C8_Witness ==
    /\ call.op = "extract_exterior_borders"
    /\ call.err = "none"
    /\ \E s \in CollectedSlices :
          \E x, y \in SliceSlots(s) : IsDuplicate(x) /\ ~IsDuplicate(y)
    /\ \E s \in ExtremalSlices : s \notin CollectedSlices /\ Cardinality(SliceSlots(s)) = 2

\* ------------------------------------------------------------------ C6, C7
\* the unique nodes of an extremal slice
UniqueSet(s) == {unique_nodes_inds[x] : x \in SliceSlots(s)}

FacesOf(p) == {s \in ExtremalSlices : s.patch = p}

\* the pairs (face of patch 0, face of patch 1) along which two patches of
\* 2 x 2 x 2 nodes are glued: the two faces carry the same 4 unique nodes and
\* no other node of the mesh is shared
GluedFaces ==
    {f \in FacesOf(0) \X FacesOf(1) :
        /\ UniqueSet(f[1]) = UniqueSet(f[2])
        /\ Cardinality(UniqueSet(f[1])) = 4
        /\ \A x \in Nodes : IsDuplicate(x) <=> x \in SliceSlots(f[1]) \cup SliceSlots(f[2])}

\* two patches of 2 x 2 x 2 nodes (8 + 8 unpacked nodes) glued on one shared
\* face: 4 shared nodes, 12 unique nodes
GluedOnOneFace ==
    /\ pc = "ready"
    /\ shape_by_patch = <<<<2, 2, 2>>, <<2, 2, 2>>>>
    /\ nb_unique_nodes = 12
    /\ GluedFaces # {}

\* C6 as stated: on two 2 x 2 x 2 patches glued on one shared face,
\* extract_interior_borders yields exactly 1 border patch and the border
\* connectivity has 4 unique nodes.
C6_Original ==
    (GluedOnOneFace /\ call.op = "extract_interior_borders") =>
        /\ call.err = "none"
        /\ Len(call.ret.border_splines) = 1
        /\ call.ret.border_connectivity.nb_unique_nodes = 4

\* C6 as amended: on two 2 x 2 x 2 patches glued on one shared face,
\* extract_interior_borders yields exactly 2 border patches, the glued face
\* taken once from each of the two patches (patch 0 first), and the border
\* connectivity has 4 unique nodes for its 8 unpacked nodes.
C6_InteriorBorders ==
    (GluedOnOneFace /\ call.op = "extract_interior_borders") =>
        /\ call.err = "none"
        /\ Len(call.ret.border_splines) = 2
        /\ call.ret.border_connectivity.nb_patchs = 2
        /\ <<call.ret.slices[1], call.ret.slices[2]>> \in GluedFaces
        /\ call.ret.border_connectivity.nb_unique_nodes = 4
        /\ call.ret.border_connectivity.nb_nodes = 8
        /\ Range(call.ret.border_connectivity.unique_nodes_inds) = 0..3

\* the interior borders of two cubes glued on a face have been extracted
C6_Witness ==
    /\ GluedOnOneFace
    /\ call.op = "extract_interior_borders"
    /\ call.err = "none"

\* C7: on two 2 x 2 x 2 patches glued on one shared face (12 unique nodes),
\* extract_exterior_borders yields exactly 10 border patches: every patch
\* face other than the two glued ones.
C7_ExteriorBorders ==
    (GluedOnOneFace /\ call.op = "extract_exterior_borders") =>
        /\ call.err = "none"
        /\ Len(call.ret.border_splines) = 10
        /\ call.ret.border_connectivity.nb_patchs = 10
        /\ \A f \in GluedFaces : CollectedSlices = ExtremalSlices \ {f[1], f[2]}

\* the exterior borders of two cubes glued on a face have been extracted
C7_Witness ==
    /\ GluedOnOneFace
    /\ call.op = "extract_exterior_borders"
    /\ call.err = "none"
    /\ Cardinality(ExtremalSlices) = 12

\* ---------------------------------------------------------------------- C10
\* the patch (1-based) that owns the unpacked node x
PatchOfNode(x) ==
    CHOOSE p \in 1..Len(shape_by_patch) :
        PatchOffset(p) <= x /\ x < PatchOffset(p) + Prod(shape_by_patch[p])

\* the control point of the unpacked node x
PointOf(x) ==
    LET p == PatchOfNode(x)
        idx == CHOOSE j \in Indices(shape_by_patch[p]) :
                   LexPos(j, shape_by_patch[p]) = x - PatchOffset(p)
    IN  separated_ctrlPts[p].at[idx]

RECURSIVE PatchesFrom(_)
\* the owning patch of the nodes x, x+1, ..., as a tuple
PatchesFrom(x) ==
    IF x >= NbNodes(shape_by_patch) THEN <<>> ELSE <<PatchOfNode(x)>> \o PatchesFrom(x + 1)

RECURSIVE PointsFrom(_)
\* the control points of the nodes x, x+1, ..., as a tuple
PointsFrom(x) ==
    IF x >= NbNodes(shape_by_patch) THEN <<>> ELSE <<PointOf(x)>> \o PointsFrom(x + 1)

\* the couples (a, b) of control points of different patches whose distance
\* is within eps, in the sense of the comparison of the source: dist < eps
CrossPatchClose ==
    LET pat == PatchesFrom(0)
        pts == PointsFrom(0)
    IN  {c \in {<<a, b>> : a \in Nodes, b \in Nodes} :
            /\ pat[c[1] + 1] # pat[c[2] + 1]
            /\ Dist2(pts[c[1] + 1], pts[c[2] + 1]) < eps * eps}

Derived ==
    /\ call.op \in {"extract_exterior_borders", "extract_interior_borders", "subset"}
    /\ call.err = "none"

\* the Connectivity it returned
DerivedConnectivity ==
    IF call.op = "subset" THEN call.ret.new_connectivity ELSE call.ret.border_connectivity

\* the back-mapping it returned
BackMap ==
    IF call.op = "subset" THEN call.ret.new_unique_to_self_unique_connectivity
    ELSE call.ret.border_unique_to_self_unique_connectivity

\* first slot of patch q (1-based) of the derived Connectivity
DerivedOffset(q) == NbNodes(SubSeq(DerivedConnectivity.shape_by_patch, 1, q - 1))

\* the parent axes (0-based) a border patch runs along, in its own axis
\* order: the axes after the sliced one, then those before it, and the
\* reverse of that for the slice of index 0
BorderAxes(s) ==
    LET npa == Self.npa
        cyc == [a \in 1..(npa - 1) |-> (s.axis + a) % npa]
    IN  IF s.side = 0 THEN Reverse(cyc) ELSE cyc

\* the pairs <<slot of the derived Connectivity, slot of the parent it was
\* taken from>>
TakenFrom ==
    IF call.op = "subset"
    THEN UNION {{<<DerivedOffset(q) + LexPos(j, shape_by_patch[call.arg[q] + 1]),
                   PatchOffset(call.arg[q] + 1) + LexPos(j, shape_by_patch[call.arg[q] + 1])>> :
                    j \in Indices(shape_by_patch[call.arg[q] + 1])} :
                q \in 1..Len(call.arg)}
    ELSE UNION {LET s == call.ret.slices[q]
                    shape == shape_by_patch[s.patch + 1]
                    baxes == BorderAxes(s)
                    bshape == [a \in 1..Len(baxes) |-> shape[baxes[a] + 1]]
                    fixed == IF s.side = 0 THEN 0 ELSE shape[s.axis + 1] - 1
                IN  {<<DerivedOffset(q) + LexPos(j, bshape),
                       PatchOffset(s.patch + 1)
                       + LexPos([a \in 1..Len(shape) |->
                                    IF a - 1 = s.axis THEN fixed
                                    ELSE j[CHOOSE b \in 1..Len(baxes) : baxes[b] = a - 1]],
                                shape)>> : j \in Indices(bshape)} :
                q \in 1..Len(call.ret.slices)}

\* through the back-mapping every derived slot names the parent unique node
\* of the parent slot it was taken from, so that derived slots share a
\* unique index exactly when their parent slots do
BackMapped ==
    LET c == DerivedConnectivity
        m == BackMap
        T == TakenFrom
    IN  /\ {t[1] : t \in T} = DOMAIN c.unique_nodes_inds
        /\ DOMAIN m = 0..(c.nb_unique_nodes - 1)
        /\ \A a, b \in DOMAIN m : a < b => m[a] < m[b]
        /\ \A t \in T :
              /\ c.unique_nodes_inds[t[1]] \in DOMAIN m
              /\ m[c.unique_nodes_inds[t[1]]] = unique_nodes_inds[t[2]]
        /\ \A t, u \in T :
              c.unique_nodes_inds[t[1]] = c.unique_nodes_inds[u[1]]
                  <=> unique_nodes_inds[t[2]] = unique_nodes_inds[u[2]]

\* C16 (derived connectivities are canonical): the Connectivity returned by
\* extract_exterior_borders, extract_interior_borders and subset (non-empty
\* patches_to_keep) has unique_nodes_inds whose distinct values are exactly
\* 0 .. nb_unique_nodes - 1, whatever parent unique nodes it uses.
C16_DerivedCanonical ==
    Derived =>
        LET c == DerivedConnectivity
        IN  /\ Range(c.unique_nodes_inds) = 0..(c.nb_unique_nodes - 1)
            /\ c.nb_nodes = Size(c.unique_nodes_inds)

\* a subset and a border extraction whose parent unique nodes are not
\* 0 .. n - 1: the smallest is not 0, or one is skipped
C16_Witness ==
    /\ Derived
    /\ call.op \in {"subset", "extract_exterior_borders"}
    /\ Range(BackMap) # 0..(DerivedConnectivity.nb_unique_nodes - 1)
    /\ DerivedConnectivity.nb_unique_nodes >= 2

\* C17 (border back-mapping): for the result (bc, _, m) of either border
\* extraction, m has length bc.nb_unique_nodes and is strictly increasing,
\* m[bc.unique_nodes_inds[k]] is the parent unique index of the parent node
\* border slot k was taken from, and two border slots share a border unique
\* index if and only if their parent nodes share a parent unique index.
C17_BorderBackMapping ==
    (Derived /\ call.op # "subset") => BackMapped

\* an extraction of the faces of 3-D patches in which two border slots share
\* a node and the back-mapping is not the identity
C17_Witness ==
    /\ Derived
    /\ call.op # "subset"
    /\ Self.npa = 3
    /\ \E a \in DOMAIN BackMap : BackMap[a] # a
    /\ DerivedConnectivity.nb_unique_nodes < DerivedConnectivity.nb_nodes
    /\ \E q \in 1..Len(call.ret.slices) : call.ret.slices[q].side = 0

\* C18 (subset): subset(splines, patches_to_keep) returns (nc, kept, m) where
\* nc has exactly the kept patches, in the order of patches_to_keep, with
\* their parent shapes, kept their descriptors in that order, and
\* m[nc.unique_nodes_inds[k]] is the parent unique index of the parent slot
\* of k, so that two kept slots share a unique index in nc if and only if
\* they shared one in the parent.
C18_Subset ==
    (Derived /\ call.op = "subset") =>
        LET nc == call.ret.new_connectivity
        IN  /\ nc.nb_patchs = Len(call.arg)
            /\ Len(call.ret.new_splines) = Len(call.arg)
            /\ \A q \in 1..Len(call.arg) :
                  /\ nc.shape_by_patch[q] = shape_by_patch[call.arg[q] + 1]
                  /\ call.ret.new_splines[q] = Splines(shape_by_patch)[call.arg[q] + 1]
            /\ BackMapped

\* a subset that keeps the second patch before the first, the two sharing a
\* node
C18_Witness ==
    /\ Derived
    /\ call.op = "subset"
    /\ call.arg = <<1, 0>>
    /\ shape_by_patch[1] # shape_by_patch[2]
    /\ call.ret.new_connectivity.nb_unique_nodes < call.ret.new_connectivity.nb_nodes

\* the attributes of the receiving Connectivity are after the step what they
\* were before it
SelfUnchanged ==
    /\ unique_nodes_inds' = unique_nodes_inds
    /\ shape_by_patch' = shape_by_patch
    /\ nb_unique_nodes' = nb_unique_nodes
    /\ NbNodes(shape_by_patch') = NbNodes(shape_by_patch)

UnsupportedMethodFailure ==
    /\ call'.err = "NotImplementedError"
    /\ call'.ret = <<>>
    /\ SelfUnchanged

\* C20: pack with a method other than 'first' and 'mean' fails with
\* NotImplementedError, returns no unique field and leaves the Connectivity
\* unchanged.
C20_PackUnsupportedMethod ==
    [][(pc \in {"built", "ready"} /\ call'.op = "pack"
        /\ call'.method \notin {"first", "mean"}) => UnsupportedMethodFailure]_vars

\* pack has been called with method 'median' on a mesh that shares a node
C20_Witness ==
    /\ call.op = "pack"
    /\ call.method = "median"
    /\ call.err = "NotImplementedError"
    /\ nb_unique_nodes < Self.nb_nodes


\* ------------------------------------------- boundary faces and alignments
\* the correspondence records held after from_splines has returned
Records ==
    IF pc \in {"from_splines", "from_splines_loop", "AssertionError"} \/ cpl = <<>>
    THEN <<>>
    ELSE [m \in 1..cpl.nb_couples |-> RecordOf(cpl, m - 1)]

\* the axes of a patch that run along the axes of its boundary grid at
\* (axis, front_side): for axis 0 of a volume, axes 1 then 2 on the front
\* side and axes 2 then 1 on the back side
FaceAxes(NPa, axis, front_side) ==
    LET after == [a \in 1..(NPa - 1 - axis) |-> axis + a]
        before == [a \in 1..axis |-> a - 1]
    IN  IF front_side THEN after \o before ELSE Reverse(before) \o Reverse(after)

\* the index in the patch grid of the node at idx of the boundary grid
FaceNode(shape, axis, front_side, idx) ==
    LET axes == FaceAxes(Len(shape), axis, front_side)
    IN  [a \in 1..Len(shape) |->
            IF a - 1 = axis THEN (IF front_side THEN shape[a] - 1 ELSE 0)
            ELSE idx[CHOOSE q \in 1..Len(axes) : axes[q] = a - 1]]

\* the extents of the boundary grid
FaceShape(shape, axis, front_side) ==
    LET axes == FaceAxes(Len(shape), axis, front_side)
    IN  [q \in 1..Len(axes) |-> shape[axes[q] + 1]]

\* the index in the boundary grid of patch 2 that transpose and flip bring
\* to the index idx of the boundary grid of patch 1
Paired(face_shape2, transpose_, flip, idx) ==
    [q \in 1..Len(face_shape2) |->
        LET q1 == CHOOSE a \in 1..Len(transpose_) : transpose_[a] + 1 = q
        IN  IF flip[q1] THEN face_shape2[q] - 1 - idx[q1] ELSE idx[q1]]

\* a knot vector reflected about the span of its own basis
ReflectedKnot(basis) ==
    [q \in 1..Len(basis.knot) |->
        SpanOf(basis)[1] + SpanOf(basis)[2] - basis.knot[Len(basis.knot) + 1 - q]]

\* the extents of the two boundary grids agree under the transpose of r
ExtentsAgree(ctrl_pts, r) ==
    LET shape1 == FaceShape(ctrl_pts[r.spline1_ind + 1].shape, r.axis1, r.front_side1)
        shape2 == FaceShape(ctrl_pts[r.spline2_ind + 1].shape, r.axis2, r.front_side2)
    IN  shape1 = [q \in 1..Len(shape1) |-> shape2[r.transpose_2_to_1[q] + 1]]

\* the two boundary grids coincide point for point under the transpose and
\* flip of r
PointsCoincide(ctrl_pts, r) ==
    LET grid1 == ctrl_pts[r.spline1_ind + 1]
        grid2 == ctrl_pts[r.spline2_ind + 1]
        shape1 == FaceShape(grid1.shape, r.axis1, r.front_side1)
        shape2 == FaceShape(grid2.shape, r.axis2, r.front_side2)
    IN  /\ ExtentsAgree(ctrl_pts, r)
        /\ \A idx \in Indices(shape1) :
              grid1.at[FaceNode(grid1.shape, r.axis1, r.front_side1, idx)]
              = grid2.at[FaceNode(grid2.shape, r.axis2, r.front_side2,
                                  Paired(shape2, r.transpose_2_to_1, r.flip_2_to_1, idx))]

\* the bases of the two patches along the boundary axes that r pairs have
\* the same degree, and the same knot vector once the one of patch 2 is
\* reflected where r flips
BasesAgree(splines_, r) ==
    LET NPa == Len(splines_[r.spline1_ind + 1].bases)
        axes1 == FaceAxes(NPa, r.axis1, r.front_side1)
        axes2 == FaceAxes(NPa, r.axis2, r.front_side2)
    IN  \A q \in 1..(NPa - 1) :
           LET basis1 == splines_[r.spline1_ind + 1].bases[axes1[q] + 1]
               basis2 == splines_[r.spline2_ind + 1].bases[axes2[r.transpose_2_to_1[q] + 1] + 1]
           IN  /\ basis1.p = basis2.p
               /\ basis1.knot = IF r.flip_2_to_1[q] THEN ReflectedKnot(basis2) ELSE basis2.knot

\* the invariant of a correspondence record
RecordInvariant(ctrl_pts, splines_, r) ==
    /\ PointsCoincide(ctrl_pts, r)
    /\ BasesAgree(splines_, r)

\* ---------------------------------------------------------------------- C11
\* C11 (no unverified match): every correspondence record emitted by
\* from_splines satisfies the record invariant: the boundary grid of patch 2
\* at (axis2, front_side2), transposed and flipped as the record says,
\* coincides point for point with the boundary grid of patch 1 at (axis1,
\* front_side1), and the degrees, the extents and the knot vectors of the two
\* boundaries agree under the same transform.
C11_NoUnverifiedMatch ==
    \A m \in 1..Len(Records) : RecordInvariant(separated_ctrlPts, splines, Records[m])

\* what from_splines does guarantee: the points of every record coincide
C11_PointsVerified ==
    \A m \in 1..Len(Records) : PointsCoincide(separated_ctrlPts, Records[m])

\* in the plane every record satisfies the whole invariant
C11_PlaneRecords ==
    \A m \in 1..Len(Records) :
        cpl.NPa = 2 => RecordInvariant(separated_ctrlPts, splines, Records[m])


\* ---------------------------------------------------------------------- C12
\* from_splines has just returned its instance
Returned == pc = "couples"

\* the boundary pair of a record
BoundaryPair(r) ==
    <<r.spline1_ind, r.spline2_ind, r.axis1, r.axis2, r.front_side1, r.front_side2>>

\* the position of x in the sequence seq
PositionIn(seq, x) == CHOOSE q \in 1..Len(seq) : seq[q] = x

\* the place of a record in the enumeration of the nested loops
EnumerationKey(r) ==
    <<r.spline1_ind, r.spline2_ind, r.axis1, r.axis2,
      IF r.front_side1 THEN 1 ELSE 0, IF r.front_side2 THEN 1 ELSE 0,
      PositionIn(all_transpose(cpl.NPa), r.transpose_2_to_1),
      PositionIn(all_flip(cpl.NPa), r.flip_2_to_1)>>

\* the record of the candidate c for the patches a < b (0-based)
RecordFor(a, b, c) == [spline1_ind |-> a, spline2_ind |-> b] @@ c

\* the candidate c passes the five checks for the patches a < b
PassesFor(a, b, c) ==
    Passes(separated_ctrlPts[a + 1], separated_ctrlPts[b + 1], splines[a + 1], splines[b + 1], c)

Discovered(a, b, c) ==
    \E m \in 1..Len(Records) : BoundaryPair(Records[m]) = BoundaryPair(RecordFor(a, b, c))

\* C13 (discovery completeness): for npa = 2 and npa = 3, for every pair of
\* distinct patches and every pair of their boundary faces whose
\* control-point grids coincide under some permutation and reflection of the
\* axes of the boundary, the degrees and the knot vectors matching under
\* that same transform, from_splines emits a correspondence record for that
\* pair of faces.
C13_DiscoveryCompleteness ==
    Returned =>
        \A a, b \in 0..(Len(splines) - 1) :
           a < b =>
              \A c \in Range(Candidates(cpl.NPa)) :
                 RecordInvariant(separated_ctrlPts, splines, RecordFor(a, b, c))
                 => Discovered(a, b, c)

\* in the plane every matching pair of boundaries is discovered
C13_PlaneComplete ==
    (Returned /\ cpl.NPa = 2) =>
        \A a, b \in 0..(Len(splines) - 1) :
           a < b =>
              \A c \in Range(Candidates(cpl.NPa)) :
                 RecordInvariant(separated_ctrlPts, splines, RecordFor(a, b, c))
                 => Discovered(a, b, c)


\* ---------------------------------------------------------------------- C14
\* the corners of a boundary grid
Corners(face_shape) ==
    {idx \in Indices(face_shape) :
        \A q \in 1..Len(face_shape) : idx[q] \in {0, face_shape[q] - 1}}

\* the parametric coordinate of a corner node of a patch: along each axis
\* the start of the span at index 0 and its end at the last index
CornerCoordinate(node, spans) ==
    [a \in 0..(Len(node) - 1) |->
        FInt(IF node[a + 1] = 0 THEN spans[a + 1][1] ELSE spans[a + 1][2])]

\* A.xi + b
Affine(A, b, xi) ==
    [row \in DOMAIN b |->
        FAdd(FSum([c \in DOMAIN b |-> FMul(A[<<row, c>>], xi[c])], Cardinality(DOMAIN b)),
             b[row])]

\* the operator returned for the record r sends the corner idx of the
\* boundary of patch 1 onto the corner of patch 2 that r pairs with it, on
\* the axes of patch 2 in rows
OperatorSendsCorner(r, idx, rows) ==
    LET shape1 == separated_ctrlPts[r.spline1_ind + 1].shape
        shape2 == separated_ctrlPts[r.spline2_ind + 1].shape
        node1 == FaceNode(shape1, r.axis1, r.front_side1, idx)
        node2 == FaceNode(shape2, r.axis2, r.front_side2,
                          Paired(FaceShape(shape2, r.axis2, r.front_side2),
                                 r.transpose_2_to_1, r.flip_2_to_1, idx))
        xi1 == CornerCoordinate(node1, getSpans(splines[r.spline1_ind + 1]))
        xi2 == CornerCoordinate(node2, getSpans(splines[r.spline2_ind + 1]))
        image == Affine(call.ret.A, call.ret.b, xi1)
    IN  \A row \in rows : image[row] = xi2[row]

\* the record get_operator_allxi1_to_allxi2 was called for
OperatorRecord == Records[call.arg + 1]

\* C14 (affine operator): for every correspondence record and (A, b) =
\* get_operator_allxi1_to_allxi2(spans1, spans2, record), for every corner of
\* the matched boundary of patch 1, of parametric coordinate xi1, A.xi1 + b is
\* the parametric coordinate in patch 2 of the node that the transpose and
\* flip of the record pair with it; in particular its coordinate on the
\* matched axis is the end of the span of patch 2 that front_side2 selects.
C14_AffineOperator ==
    pc = "operator" =>
        LET r == OperatorRecord
            shape1 == separated_ctrlPts[r.spline1_ind + 1].shape
        IN  \A idx \in Corners(FaceShape(shape1, r.axis1, r.front_side1)) :
               OperatorSendsCorner(r, idx, 0..(cpl.NPa - 1))

\* the part that holds for every record: the coordinate on the matched axis
C14_MatchedAxis ==
    pc = "operator" =>
        LET r == OperatorRecord
            shape1 == separated_ctrlPts[r.spline1_ind + 1].shape
        IN  \A idx \in Corners(FaceShape(shape1, r.axis1, r.front_side1)) :
               OperatorSendsCorner(r, idx, {r.axis2})

\* the operator is right in the plane, and for two front sides
C14_PlaneOrFrontSides ==
    (pc = "operator"
     /\ (cpl.NPa = 2 \/ (OperatorRecord.front_side1 /\ OperatorRecord.front_side2))) =>
        LET r == OperatorRecord
            shape1 == separated_ctrlPts[r.spline1_ind + 1].shape
        IN  \A idx \in Corners(FaceShape(shape1, r.axis1, r.front_side1)) :
               OperatorSendsCorner(r, idx, 0..(cpl.NPa - 1))


\* ---------------------------------------------------------------------- C15
\* the unpacked node of the patch p (0-based) at the index node of its grid
UnpackedNode(p, node) == PatchOffset(p + 1) + LexPos(node, shape_by_patch[p + 1])

\* the coincidence pairs of the record r: each node of the boundary of patch
\* 1 with the node of the boundary of patch 2 that the transpose and flip of
\* r bring to the same place
PairsOf(r) ==
    LET shape1 == shape_by_patch[r.spline1_ind + 1]
        shape2 == shape_by_patch[r.spline2_ind + 1]
    IN  {<<UnpackedNode(r.spline1_ind, FaceNode(shape1, r.axis1, r.front_side1, idx)),
           UnpackedNode(r.spline2_ind,
                        FaceNode(shape2, r.axis2, r.front_side2,
                                 Paired(FaceShape(shape2, r.axis2, r.front_side2),
                                        r.transpose_2_to_1, r.flip_2_to_1, idx)))>> :
            idx \in Indices(FaceShape(shape1, r.axis1, r.front_side1))}

\* the pairs of all the records, in both directions
RecordEdges ==
    LET pairs == UNION {PairsOf(Records[m]) : m \in 1..Len(Records)}
    IN  pairs \cup {<<e[2], e[1]>> : e \in pairs}

\* C15: get_connectivity(shape_by_patch) turns every correspondence record
\* into unpacked coincidence pairs, each node of the boundary of patch 1 with
\* the node of the boundary of patch 2 at the same place after transpose and
\* flip; the two nodes of a pair lie at the same point and carry the same
\* unique index in the returned Connectivity, and two nodes carry the same
\* unique index only if a chain of such pairs links them.
C15_GetConnectivity ==
    (pc = "built" /\ cpl # <<>>) =>
        /\ Range(nodes_couples) = UNION {PairsOf(Records[m]) : m \in 1..Len(Records)}
        /\ \A e \in Range(nodes_couples) :
              /\ PointOf(e[1]) = PointOf(e[2])
              /\ unique_nodes_inds[e[1]] = unique_nodes_inds[e[2]]
        /\ \A x \in Nodes : SameUnique(x) = ClassOf(x, RecordEdges)

\* a Connectivity returned for two volumes glued on a face whose record
\* both transposes and flips, so that fewer unique nodes than nodes remain
C15_Witness ==
    /\ pc = "built"
    /\ cpl # <<>>
    /\ \E m \in 1..Len(Records) :
          /\ Records[m].transpose_2_to_1 = <<1, 0>>
          /\ Records[m].flip_2_to_1 = <<TRUE, FALSE>>
    /\ nb_unique_nodes < NbNodes(shape_by_patch)
    /\ \E x, y \in Nodes : x # y /\ unique_nodes_inds[x] = unique_nodes_inds[y]


\* ---------------------------------------------------------------------- C21
\* the last call was a border extraction
BorderCall == call.op \in {"extract_exterior_borders", "extract_interior_borders"}

\* C21: extract_exterior_borders and extract_interior_borders on a
\* Connectivity with npa < 2 fail with the dimension-too-low error (an
\* AssertionError), raised before any border data is computed and without
\* any result.
C21_DimensionTooLow ==
    (pc = "ready" /\ BorderCall /\ Self.npa < 2) =>
        /\ call.err = "AssertionError"
        /\ call.ret = <<>>

\* both extractions refused on a mesh of two glued 1-D patches
C21_Witness ==
    /\ pc = "ready"
    /\ call.op = "extract_exterior_borders"
    /\ Self.npa = 1
    /\ Self.nb_patchs = 2
    /\ nb_unique_nodes < Self.nb_nodes
    /\ call.err = "AssertionError"
    /\ extract_interior_borders(Self, call.arg).err = "AssertionError"


\* ---------------------------------------------------------------------- C22
\* the knot vector knot reflected about the span [min, max]
ReflectedAbout(knot, span) ==
    [q \in 1..Len(knot) |-> span[1] + span[2] - knot[Len(knot) + 1 - q]]

\* C22 (knot reflection): transpose_and_flip_knots(knots, spans, transpose,
\* flip) returns, for each output axis i, knots[transpose[i]] unchanged when
\* flip[i] is false and otherwise that knot vector reflected about its own
\* span, (span_min + span_max of axis transpose[i]) - reverse, for any
\* permutation transpose, also when the axes have different spans.
C22_KnotReflection ==
    (pc = "returned" /\ call.op = "transpose_and_flip_knots") =>
        /\ Len(call.ret) = Len(call.arg.flip)
        /\ \A a \in 1..Len(call.arg.flip) :
              LET source == call.arg.transpose[a] + 1
              IN  call.ret[a] = IF call.arg.flip[a]
                                THEN ReflectedAbout(call.arg.knots[source],
                                                    call.arg.spans[source])
                                ELSE call.arg.knots[source]

\* what the call does return: a flipped output axis i is reflected about the
\* span of the axis i of the input, not of the axis transpose[i] it comes from
C22_ReflectedAboutOutputAxis ==
    (pc = "returned" /\ call.op = "transpose_and_flip_knots") =>
        /\ Len(call.ret) = Len(call.arg.flip)
        /\ \A a \in 1..Len(call.arg.flip) :
              LET source == call.arg.transpose[a] + 1
              IN  call.ret[a] = IF call.arg.flip[a]
                                THEN ReflectedAbout(call.arg.knots[source], call.arg.spans[a])
                                ELSE call.arg.knots[source]


\* ---------------------------------------------------------------------- C23
\* the unpacked slots that carry the unique index u
SlotsOf(u) == {x \in DOMAIN unique_nodes_inds : unique_nodes_inds[x] = u}

\* C23: pack(x, method='first') returns, for each unique node u, the value of
\* exactly one contributor: x[i] for the smallest unpacked index i with
\* unique_nodes_inds[i] = u; nothing is summed, averaged or left at the
\* initial zero.
C23_PackFirst ==
    (pc = "ready" /\ call.op = "pack" /\ call.method = "first") =>
        /\ call.err = "none"
        /\ DOMAIN call.ret = 0..(nb_unique_nodes - 1)
        /\ \A u \in 0..(nb_unique_nodes - 1) : call.ret[u] = call.arg[Min(SlotsOf(u))]

\* a unique node with two contributors of different values, the first of
\* them not zero: the packed value is the one of the smaller slot
C23_Witness ==
    /\ pc = "ready"
    /\ call.op = "pack"
    /\ call.method = "first"
    /\ \E u \in 0..(nb_unique_nodes - 1) :
          \E x, y \in SlotsOf(u) :
             /\ x < y
             /\ call.arg[x] # Zero
             /\ call.arg[y] = Zero
             /\ call.ret[u] = call.arg[x]


\* ------------------------------------------------ C24: find and its paths
RECURSIVE RootOf(_, _)
\* the root above x, reached by following the parent pointers
RootOf(p, x) == IF p[x] = x THEN x ELSE RootOf(p, p[x])

RECURSIVE PathOf(_, _)
\* the nodes met from x up to its root, both included
PathOf(p, x) == IF p[x] = x THEN {x} ELSE {x} \cup PathOf(p, p[x])

RECURSIVE UnionAll(_, _, _)
\* the forest after the first n couples were united, from singletons
UnionAll(nb_nodes, couples, n) ==
    IF n = 0
    THEN [parent |-> [x \in 0..(nb_nodes - 1) |-> x], rank |-> [x \in 0..(nb_nodes - 1) |-> 0]]
    ELSE LET f == UnionAll(nb_nodes, couples, n - 1)
         IN  union(f.parent, f.rank, couples[n][1], couples[n][2])

RECURSIVE FindAll(_, _)
\* the parent array after find was applied to the nodes 0..n-1 in turn
FindAll(p, n) == IF n = 0 THEN p ELSE find(FindAll(p, n - 1), n - 1).parent

\* the parent array the last find of the final loop started from
ParentBeforeLastFind ==
    FindAll(UnionAll(NbNodes(shape_by_patch), nodes_couples, Len(nodes_couples)).parent, i - 1)

\* what find(parent, i) leaves behind, stated on the arrays before and after
FindEffect ==
    LET r == unique_nodes_inds'[i]
        path == PathOf(parent, i)
    IN  /\ r = RootOf(parent, i)
        /\ parent[r] = r
        /\ parent'[r] = r
        /\ \A y \in path : parent'[y] = r
        /\ \A y \in DOMAIN parent \ path : parent'[y] = parent[y]
        /\ DOMAIN parent' = DOMAIN parent
        /\ \A y \in DOMAIN parent : RootOf(parent', y) = RootOf(parent, y)

FindStepCompresses == FindStep => FindEffect

\* C24: find(parent, x) returns the root of x's class; every node of the
\* former path from x to that root then points directly at the root, every
\* other node keeps its parent, and the partition into classes is unchanged.
C24_FindCompression == [][FindStepCompresses]_vars

\* a find has just shortened a path of two links
C24_Witness ==
    /\ pc = "get_unique_nodes_inds"
    /\ i >= 1
    /\ LET before == ParentBeforeLastFind
           x == i - 1
       IN  /\ before[x] # x
           /\ before[before[x]] # before[x]
           /\ parent[x] = RootOf(before, x)
           /\ parent[x] # before[x]

\* ------------------------------------------------------ C25: union by rank
\* the nodes of the class of root r
ClassOfRoot(p, r) == {z \in DOMAIN p : RootOf(p, z) = r}

\* what union(parent, rank, x, y) leaves behind for the (k+1)-th couple,
\* stated on the arrays before and after
UnionEffect ==
    LET x == nodes_couples[k + 1][1]
        y == nodes_couples[k + 1][2]
        rootX == RootOf(parent, x)
        rootY == RootOf(parent, y)
        others == {z \in DOMAIN parent : RootOf(parent, z) \notin {rootX, rootY}}
    IN  /\ DOMAIN parent' = DOMAIN parent
        /\ (rootX # rootY /\ rank[rootX] > rank[rootY]) =>
              /\ parent'[rootY] = rootX
              /\ parent'[rootX] = rootX
              /\ rank' = rank
        /\ (rootX # rootY /\ rank[rootX] < rank[rootY]) =>
              /\ parent'[rootX] = rootY
              /\ parent'[rootY] = rootY
              /\ rank' = rank
        /\ (rootX # rootY /\ rank[rootX] = rank[rootY]) =>
              /\ parent'[rootY] = rootX
              /\ parent'[rootX] = rootX
              /\ rank' = [rank EXCEPT ![rootX] = rank[rootX] + 1]
        /\ (rootX = rootY) =>
              /\ \A z \in DOMAIN parent : parent[z] = z => parent'[z] = z
              /\ rank' = rank
        /\ \A z \in others :
              /\ RootOf(parent', z) = RootOf(parent, z)
              /\ ClassOfRoot(parent', RootOf(parent', z)) = ClassOfRoot(parent, RootOf(parent, z))

UnionStepByRank == UnionStep => UnionEffect

\* C25: union attaches the root of strictly lower rank under the root of
\* higher rank without changing a rank; on equal ranks it attaches y's root
\* under x's root and adds exactly 1 to the rank of x's root; when x and y
\* share a root no root is re-attached and no rank changes; the classes of
\* all other elements are unchanged.
C25_UnionByRank == [][UnionStepByRank]_vars

\* three unions were made: a tie, an attachment of a lower rank under a
\* higher one, and one of two distinct nodes already in the same class
C25_Witness ==
    /\ pc = "get_unique_nodes_inds"
    /\ Len(nodes_couples) = 3
    /\ k = 3
    /\ i = 0
    /\ LET n == NbNodes(shape_by_patch)
           f1 == UnionAll(n, nodes_couples, 1)
           f2 == UnionAll(n, nodes_couples, 2)
           c1 == nodes_couples[1]
           c2 == nodes_couples[2]
           c3 == nodes_couples[3]
       IN  /\ c1[1] # c1[2]
           /\ \E r \in DOMAIN rank : f1.rank[r] = 1
           /\ RootOf(f1.parent, c2[1]) # RootOf(f1.parent, c2[2])
           /\ f1.rank[RootOf(f1.parent, c2[1])] # f1.rank[RootOf(f1.parent, c2[2])]
           /\ f2.rank = f1.rank
           /\ c3[1] # c3[2]
           /\ RootOf(f2.parent, c3[1]) = RootOf(f2.parent, c3[2])
           /\ rank = f2.rank

\* ------------------------------------------------- C26: canonical labels
\* the root of x in the forest the couples build, as a value of the inputs
\* (nodes_couples, shape_by_patch) alone
InputRoot(x) ==
    RootOf(UnionAll(NbNodes(shape_by_patch), nodes_couples, Len(nodes_couples)).parent, x)

InputRoots == {InputRoot(x) : x \in 0..(NbNodes(shape_by_patch) - 1)}

\* C26: the unique index of a node is the 0-based position of its root
\* among the sorted distinct roots; classes with roots r1 < r2 get indices
\* in the same order; the indices are a value of (nodes_couples,
\* shape_by_patch) alone, so two runs on the same input agree.
C26_Canonicalization ==
    pc = "built" =>
        /\ DOMAIN unique_nodes_inds = 0..(NbNodes(shape_by_patch) - 1)
        /\ \A x \in DOMAIN unique_nodes_inds :
              /\ RootOf(parent, x) = InputRoot(x)
              /\ unique_nodes_inds[x] = Cardinality({r \in InputRoots : r < InputRoot(x)})
        /\ \A x, y \in DOMAIN unique_nodes_inds :
              InputRoot(x) < InputRoot(y) => unique_nodes_inds[x] < unique_nodes_inds[y]

\* an instance was built whose classes have roots that are not already
\* their own positions
C26_Witness ==
    /\ pc = "built"
    /\ nb_unique_nodes >= 2
    /\ \E x, y \in DOMAIN unique_nodes_inds :
          /\ InputRoot(x) < InputRoot(y)
          /\ InputRoot(y) # unique_nodes_inds[y]
          /\ InputRoot(y) # y

\* ------------------------------------------------ C27: forest invariant
RECURSIVE Climb(_, _, _)
\* the node reached from x after n parent links
Climb(p, x, n) == IF n = 0 THEN x ELSE Climb(p, p[x], n - 1)

\* while get_unique_nodes_inds runs: ranks grow strictly along the parent
\* links, and from every node a root is reached within as many links as
\* there are nodes (no cycle but the self-loops of the roots)
ForestShape ==
    pc = "get_unique_nodes_inds" =>
        /\ DOMAIN rank = DOMAIN parent
        /\ \A x \in DOMAIN parent :
              /\ parent[x] \in DOMAIN parent
              /\ parent[x] # x => rank[x] < rank[parent[x]]
              /\ LET top == Climb(parent, x, Size(parent))
                 IN  parent[top] = top

\* a step of get_unique_nodes_inds changes the rank of roots only
RanksChangeAtRoots ==
    (pc = "get_unique_nodes_inds" /\ pc' = "get_unique_nodes_inds") =>
        \A x \in DOMAIN rank :
            rank'[x] # rank[x] => (parent[x] = x /\ parent'[x] = x)

\* C27: while get_unique_nodes_inds applies the unions and the finds, every
\* non-root x has rank[x] < rank[parent[x]], ranks change only at roots,
\* the parent pointers have no cycle other than the self-loops of the
\* roots, and every find reaches a root.
C27_ForestInvariant == []ForestShape /\ [][RanksChangeAtRoots]_vars

\* all the unions were made, one of them raised a rank to 2, and a node
\* stands two links below its root
C27_Witness ==
    /\ pc = "get_unique_nodes_inds"
    /\ k = Len(nodes_couples)
    /\ k >= 1
    /\ \E r \in DOMAIN rank : rank[r] = 2
    /\ \E x \in DOMAIN parent :
          /\ parent[x] # x
          /\ parent[parent[x]] # parent[x]

\* ---------------------------------------------------------------------- C28
\* C28: on a Connectivity with npa >= 2 and at least one patch, both border
\* extractions complete without error and return a Connectivity, also when
\* no extremal slice qualifies; they fail only when npa < 2.
C28_BordersAlwaysReturn ==
    (pc = "ready" /\ BorderCall /\ Self.npa >= 2 /\ Self.nb_patchs >= 1) =>
        /\ call.err = "none"
        /\ call.ret.border_connectivity.nb_patchs = Cardinality(CollectedSlices)

\* with npa >= 2 an extraction fails exactly when it collects no slice, and
\* then with the ValueError of np.concatenate
C28_FailsExactlyWhenEmpty ==
    (pc = "ready" /\ BorderCall /\ Self.npa >= 2) =>
        /\ (call.op = "extract_exterior_borders" =>
               (call.err # "none" <=> \A s \in ExtremalSlices : AllDuplicate(s)))
        /\ (call.op = "extract_interior_borders" =>
               (call.err # "none" <=> \A s \in ExtremalSlices : ~AllDuplicate(s)))
        /\ call.err \in {"none", "ValueError"}

\* ---------------------------------------------------------------------- C29
\* the place of an extremal slice in the order patch, axis, index 0 before -1
SliceRank(self, s) ==
    2 * self.npa * s.patch + 2 * s.axis + (IF s.side = 0 THEN 0 ELSE 1)

\* a list of slices runs in the order patch, axis, index 0 before index -1
InSliceOrder(self, slices) ==
    \A m, n \in 1..Len(slices) : m < n => SliceRank(self, slices[m]) < SliceRank(self, slices[n])

\* the slices an extraction has collected when it returns, none when it raises
SlicesOf(r) == IF r.err = "none" THEN r.ret.slices ELSE <<>>

\* the border patches an extraction returns
BorderPatchesOf(r) == r.ret.border_connectivity.nb_patchs

\* C29: for a Connectivity with npa >= 2 every extremal slice is collected
\* by exactly one of the two extractions, the numbers of border patches the
\* two return sum to 2*npa*nb_patchs, and both enumerate the slices in the
\* order patch, axis, index 0 before index -1.
C29_BordersPartition ==
    (pc = "ready" /\ BorderCall /\ Self.npa >= 2) =>
        LET exterior == extract_exterior_borders(Self, call.arg)
            interior == extract_interior_borders(Self, call.arg)
        IN  /\ exterior.err = "none"
            /\ interior.err = "none"
            /\ \A s \in ExtremalSlices :
                  s \in Range(exterior.ret.slices) <=> s \notin Range(interior.ret.slices)
            /\ BorderPatchesOf(exterior) + BorderPatchesOf(interior)
                  = 2 * Self.npa * Self.nb_patchs
            /\ InSliceOrder(Self, exterior.ret.slices)
            /\ InSliceOrder(Self, interior.ret.slices)

\* what remains of it: the slices the two loops collect split the extremal
\* slices and follow the order, and an extraction that returns has one
\* border patch per collected slice
C29_CollectedSlicesPartition ==
    (pc = "ready" /\ BorderCall /\ Self.npa >= 2) =>
        LET exterior == extract_exterior_borders(Self, call.arg)
            interior == extract_interior_borders(Self, call.arg)
        IN  /\ \A s \in ExtremalSlices :
                  s \in Range(SlicesOf(exterior)) <=> s \notin Range(SlicesOf(interior))
            /\ Len(SlicesOf(exterior)) + Len(SlicesOf(interior))
                  = 2 * Self.npa * Self.nb_patchs
            /\ InSliceOrder(Self, SlicesOf(exterior))
            /\ InSliceOrder(Self, SlicesOf(interior))
            /\ exterior.err = "none" => BorderPatchesOf(exterior) = Len(SlicesOf(exterior))
            /\ interior.err = "none" => BorderPatchesOf(interior) = Len(SlicesOf(interior))
            /\ (exterior.err = "none" /\ interior.err = "none") =>
                  BorderPatchesOf(exterior) + BorderPatchesOf(interior)
                      = 2 * Self.npa * Self.nb_patchs

\* ---------------------------------------------------------------------- C30
\* a Connectivity holds one unique index per node of its patches
SizeConsistent(c) ==
    /\ Size(c.unique_nodes_inds) = c.nb_nodes
    /\ DOMAIN c.unique_nodes_inds = 0..(c.nb_nodes - 1)
    /\ c.nb_nodes = NbNodes(c.shape_by_patch)
    /\ c.nb_patchs = Len(c.shape_by_patch)

\* the axes (0-based) of the parent patch that remain after axis a is
\* dropped, taken cyclically from a + 1 on
RotatedAxes(npa, a) == [j \in 1..(npa - 1) |-> (a + j) % npa]

\* the parent axes along which the border of the extremal slice s runs
BorderAxesOf(s) ==
    LET rotated == RotatedAxes(Self.npa, s.axis)
    IN  IF s.side = 0 THEN Reverse(rotated) ELSE rotated

\* the parent shape read along those axes
BorderShapeOf(s) ==
    LET axes == BorderAxesOf(s)
    IN  [j \in 1..Len(axes) |-> shape_by_patch[s.patch + 1][axes[j] + 1]]

\* the unpacked slot of the parent node that sits at idx on the border of s
ParentSlot(s, idx) ==
    LET shape == shape_by_patch[s.patch + 1]
        axes == BorderAxesOf(s)
        at == [c \in 1..Len(shape) |->
                  IF c - 1 = s.axis
                  THEN (IF s.side = 0 THEN 0 ELSE shape[c] - 1)
                  ELSE idx[CHOOSE j \in 1..Len(axes) : axes[j] = c - 1]]
    IN  PatchOffset(s.patch + 1) + LexPos(at, shape)

\* the m-th border patch of a returned extraction
BorderSized(m) ==
    LET border == call.ret.border_connectivity
        to_self == call.ret.border_unique_to_self_unique_connectivity
        s == call.ret.slices[m]
        row == border.shape_by_patch[m]
        offset == NbNodes(SubSeq(border.shape_by_patch, 1, m - 1))
    IN  /\ Len(row) = Self.npa - 1
        /\ row = BorderShapeOf(s)
        /\ Prod(row) = Cardinality(SliceSlots(s))
        /\ \A idx \in Indices(row) :
              to_self[border.unique_nodes_inds[offset + LexPos(idx, row)]]
                  = unique_nodes_inds[ParentSlot(s, idx)]

\* C30: every Connectivity returned by from_nodes_couples,
\* from_separated_ctrlPts, the two border extractions and subset has
\* len(unique_nodes_inds) = nb_nodes = sum of the products of its shape
\* rows; each border shape row has npa - 1 entries, is the parent shape
\* without the removed axis, the other axes rotated (reversed for the
\* index-0 side), and its product is the number of node indices collected
\* from the slice, which are laid out in that axis order.
C30_SizeConsistency ==
    /\ pc = "built" => SizeConsistent(Self)
    /\ (pc = "ready" /\ BorderCall /\ call.err = "none") =>
          /\ SizeConsistent(call.ret.border_connectivity)
          /\ Len(call.ret.slices) = call.ret.border_connectivity.nb_patchs
          /\ \A m \in 1..Len(call.ret.slices) : BorderSized(m)
    /\ (pc = "ready" /\ call.op = "subset" /\ call.err = "none") =>
          SizeConsistent(call.ret.new_connectivity)

\* the border of an index-0 slice of a patch of three axes was returned,
\* with two unequal extents larger than 1
C30_Witness ==
    /\ pc = "ready"
    /\ BorderCall
    /\ call.err = "none"
    /\ Self.npa = 3
    /\ \E m \in 1..Len(call.ret.slices) :
          LET row == call.ret.border_connectivity.shape_by_patch[m]
          IN  /\ call.ret.slices[m].side = 0
              /\ row[1] > row[2]
              /\ row[2] > 1

=============================================================================
